---- MODULE Spec2Model ----
(***************************************************************************)
(* Model of the launchpad front end's ledger-facing layer: the submit and  *)
(* poll functions (lib/stellar submitTransaction, lib/vesting submitTx),   *)
(* the build-sign-submit pipelines that call them, the pre-flight          *)
(* simulator and the forms that gate submission on its result, the        *)
(* vesting and allowance reads, the struct decoding and amount formatting  *)
(* of the two libraries, and the revoke and notification components.       *)
(*                                                                         *)
(* Every await of the source is a suspension point: an action runs a       *)
(* handler from one await to the next.                                     *)
(***************************************************************************)
EXTENDS Integers, Sequences, FiniteSets, TLC

VARIABLES
    \* ---- submit and poll (submitTransaction / submitTx) ----
    fn,           \* which function runs: "submitTransaction" or "submitTx"
    spc,          \* position of the async function
    sendStatus,   \* status of the sendTransaction response
    errorResult,  \* errorResult of the sendTransaction response
    getResponse,  \* status of the last getTransaction response
    attempts,     \* `attempts` of submitTransaction, `i` of submitTx
    queries,      \* getTransaction calls issued so far
    notFound,     \* NOT_FOUND answers received so far
    outcome,      \* how the promise settled
    \* ---- build / sign / submit pipelines ----
    pipe,         \* which handler runs
    ppc,          \* position of the handler
    steps,        \* lifecycle steps performed on the envelope, in order
    simCalls,     \* simulateTransaction calls made for the envelope
    simReply,     \* what the simulation answered
    surfaced,     \* what the handler showed the user (toast, alert, onError)
    lsRpcUrl,     \* localStorage["soropad_rpc_url"]
    startUrl,     \* the rpc endpoint configured when the handler started
    urlsUsed,     \* the rpc endpoints the handler's steps talked to
    \* ---- transaction forms with a pre-flight check ----
    form,            \* which form is mounted
    amount,          \* the amount field as typed
    preflightResult, \* the form's preflightResult state
    checks,          \* the handleCheck calls under way
    isLoading,       \* useTransactionSimulator's isLoading state
    produced,        \* the PreflightCheckResult the last simulate* call returned
    sub,             \* the onSubmit call under way
    isSubmitting,    \* the form's isSubmitting state
    rpcLog,          \* the remote calls made: which function called which endpoint
    parseReports,    \* for each reported amount-parsing error, the requests issued before it
    completed,       \* how the most recently completed check ended
    gate,            \* what held when onSubmit last went ahead
    observed,        \* whether the order in which the checks were started is recorded
    \* ---- the simulator and its error classifier, called directly ----
    classified,      \* the last parseSorobanError call: its argument and its value
    preflight,       \* the last simulateTransaction call: what it met, what it returned
    \* ---- the vesting contract and fetchVestingInfo ----
    ledger,          \* the ledger the network has closed last
    released,        \* `released` of the schedule as the contract stores it
    vpc,             \* position of fetchVestingInfo
    gotSchedule,     \* fetchVestingSchedule's value, once it has resolved
    gotVested,       \* fetchVestedAmount's value, once it has resolved
    info,            \* the VestingInfo fetchVestingInfo returned last
    \* ---- the allowances page ----
    onChain,         \* the owner's allowance for the spender as the token contract stores it
    apc,             \* position of loadAllowances
    spenders,        \* the spenders fetchApprovedSpendersFromEvents returned
    allowances,      \* the page's `allowances` state
    allowancesError, \* the page's `allowancesError` state
    \* ---- fetchVestingSchedule decoding the get_schedule struct ----
    reader,          \* which fetchVestingSchedule runs: lib/stellar's or lib/vesting's
    dpc,             \* position of fetchVestingSchedule
    fieldMap,        \* the keys of the map get_schedule returned
    dnext,           \* index of the field the object literal evaluates next
    decoderCalls,    \* the values handed on to a decoder, in order
    schedule,        \* how fetchVestingSchedule settled
    \* ---- formatTokenAmount (both libraries) ----
    fmt,             \* the last formatTokenAmount call: its arguments, the runtime's locale, its value
    \* ---- revoking an allowance (RevokeAllowanceForm, AllowancesPage) ----
    surface,         \* where the user revokes: the RevokeAllowanceForm or the AllowancesPage list
    rvCheck,         \* position of the form's handleCheck
    rvPreflight,     \* the form's preflightResult state
    showConfirm,     \* the form's showConfirm state
    rvpc,            \* position of onSubmit / handleRevokeAllowance
    rvSteps,         \* what the revoke under way has called: build, sign, submit
    requested,       \* the user has asked for the revoke
    confirmed,       \* the user has pressed Confirm Revoke since asking
    rvNotice,        \* what onError / onSuccess was last called with
    \* ---- AllowanceManager's notification and its timers ----
    now,             \* the time, in milliseconds since the component mounted
    notification,    \* AllowanceManager's `notification` state, with the time it was set
    timers,          \* the times at which the pending setTimeout callbacks are due
    dismissal,       \* the last time a timer cleared a notification: how long it had been shown
    \* ---- AllowanceList and its revoke buttons ----
    listed,          \* the allowances the list shows: for each id, whether it is expired
    revoking,        \* AllowanceList's `revoking` state
    inFlight         \* for each allowance, the onRevoke calls that have not settled

submitVars == <<fn, spc, sendStatus, errorResult, getResponse, attempts, queries, notFound, outcome>>

pipeVars == <<pipe, ppc, steps, simCalls, simReply, surfaced, lsRpcUrl, startUrl, urlsUsed>>

formVars == <<form, amount, preflightResult, checks, isLoading, produced, sub,
              isSubmitting, rpcLog, parseReports, completed, gate, observed>>

simVars == <<classified, preflight>>

vestVars == <<ledger, released, vpc, gotSchedule, gotVested, info>>

allowVars == <<onChain, apc, spenders, allowances, allowancesError>>

decodeVars == <<reader, dpc, fieldMap, dnext, decoderCalls, schedule>>

fmtVars == <<fmt>>

revokeVars == <<surface, rvCheck, rvPreflight, showConfirm, rvpc, rvSteps, requested, confirmed, rvNotice>>

notifyVars == <<now, notification, timers, dismissal>>

listVars == <<listed, revoking, inFlight>>

\* The components added after the allowances page.
otherVars == <<decodeVars, fmtVars, revokeVars, notifyVars, listVars>>

vars == <<submitVars, pipeVars, formVars, simVars, vestVars, allowVars, otherVars>>

\* What the actions of one component leave alone.
notSubmit == <<pipeVars, formVars, simVars, vestVars, allowVars, otherVars>>
notPipe == <<formVars, simVars, vestVars, allowVars, otherVars>>
notForm == <<submitVars, pipeVars, simVars, vestVars, allowVars, otherVars>>
notSim == <<submitVars, pipeVars, formVars, vestVars, allowVars, otherVars>>
notVest == <<submitVars, pipeVars, formVars, simVars, allowVars, otherVars>>
notAllow == <<submitVars, pipeVars, formVars, simVars, vestVars, otherVars>>
notDecode == <<submitVars, pipeVars, formVars, simVars, vestVars, allowVars, fmtVars, revokeVars, notifyVars, listVars>>
notFmt == <<submitVars, pipeVars, formVars, simVars, vestVars, allowVars, decodeVars, revokeVars, notifyVars, listVars>>
notRevoke == <<submitVars, pipeVars, formVars, simVars, vestVars, allowVars, decodeVars, fmtVars, notifyVars, listVars>>
notNotify == <<submitVars, pipeVars, formVars, simVars, vestVars, allowVars, decodeVars, fmtVars, revokeVars, listVars>>
notList == <<submitVars, pipeVars, formVars, simVars, vestVars, allowVars, decodeVars, fmtVars, revokeVars, notifyVars>>

(***************************************************************************)
(* Submit and poll                                                         *)
(***************************************************************************)

\* const maxAttempts = 30 (submitTransaction); the literal 30 of submitTx's for loop
maxAttempts == 30

\* The model stops counting getTransaction calls here (above anything the code issues).
MaxTrackedQueries == 40

SubmitFns == {"submitTransaction", "submitTx"}

\* rpc.Api.SendTransactionStatus
SendStatuses == {"PENDING", "DUPLICATE", "TRY_AGAIN_LATER", "ERROR"}

\* rpc.Api.GetTransactionStatus
GetStatuses == {"NOT_FOUND", "SUCCESS", "FAILED"}

Pending == [kind |-> "pending", msg |-> "none"]
Returned(v) == [kind |-> "returned", msg |-> v]
Threw(m) == [kind |-> "threw", msg |-> m]

\* What a rejecting sendTransaction response may carry as errorResult (the
\* field is optional).
ErrorResults == {"txBAD_SEQ", "txINSUFFICIENT_FEE", "undefined"}

\* The message thrown for a rejected send: submitTransaction appends the
\* base64 XDR of errorResult, submitTx appends response.status.
RejectionMessage(f, payload) ==
    IF f = "submitTransaction"
    THEN CASE payload = "txBAD_SEQ" -> "Transaction failed: base64(txBAD_SEQ)"
           [] payload = "txINSUFFICIENT_FEE" -> "Transaction failed: base64(txINSUFFICIENT_FEE)"
           [] OTHER -> "Transaction failed: undefined"
    ELSE "Transaction submission failed: ERROR"

\* `if (result.status === "ERROR") throw` of both functions
SendRejected(status) == status = "ERROR"

\* Mutant: the loop test is off by one.
AttemptsLeftOffByOne(a) == a <= maxAttempts

\* the loop test of submitTransaction: while (status === "NOT_FOUND" && attempts < maxAttempts);
\* the loop test of submitTx: i < 30
AttemptsLeft(a) == a < maxAttempts

\* Mutant: the counter is never advanced.
NextAttemptsStuck(a) == a

\* attempts++ / i++
NextAttempts(a) == a + 1

\* What submitTransaction does once getResponse is known and the loop test is due.
\* Sleeps for another round, or leaves the loop and settles.
AfterGetSubmitTransaction(status, a) ==
    IF status = "NOT_FOUND" /\ AttemptsLeft(a)
    THEN /\ spc' = "sleeping"
         /\ outcome' = Pending
    ELSE /\ spc' = "done"
         /\ outcome' = IF status = "NOT_FOUND" THEN Threw("Transaction not found after polling")
                       ELSE IF status = "FAILED" THEN Threw("Transaction failed")
                       ELSE Returned("hash")

\* What submitTx does with one getTransaction response inside its for loop.
AfterGetSubmitTx(status, a) ==
    IF status = "SUCCESS"
    THEN /\ spc' = "done"
         /\ outcome' = Returned("getResponse")
         /\ attempts' = a
    ELSE IF status = "FAILED"
    THEN /\ spc' = "done"
         /\ outcome' = Threw("Transaction failed on-chain")
         /\ attempts' = a
    ELSE /\ attempts' = NextAttempts(a)
         /\ IF AttemptsLeft(NextAttempts(a))
            THEN spc' = "sleeping" /\ outcome' = Pending
            ELSE spc' = "done" /\ outcome' = Threw("Transaction timed out waiting for confirmation")

\* The amount field: the text before the point and the digits after it.
EmptyAmount == [whole |-> "", frac |-> <<>>]

\* Amounts a user may type: "1", "1.5", "Infinity".
TypedAmounts == {[whole |-> "1", frac |-> <<>>],
                 [whole |-> "1", frac |-> <<5>>],
                 [whole |-> "Infinity", frac |-> <<>>]}

AmountInputs == TypedAmounts \cup {EmptyAmount}

\* useState(null) of preflightResult
NoResult == [present |-> FALSE, isLoading |-> FALSE, success |-> FALSE,
             errors |-> <<>>, warnings |-> <<>>]

\* No handleCheck / onSubmit call occupies the slot.
NoCall == [pc |-> "idle", amount |-> EmptyAmount, reqs |-> 0]

\* No handleCheck call occupies the slot. A call under way has its place in
\* the order the calls under way were started, and is stale once a call
\* started after it has ended.
NoCheck == [pc |-> "idle", amount |-> EmptyAmount, reqs |-> 0, order |-> 0, stale |-> FALSE]

\* What held when onSubmit went ahead; initially it has not.
NoGate == [present |-> FALSE, inFlight |-> FALSE, lastOk |-> FALSE]

\* The concurrent handleCheck calls the model follows.
MaxChecks == 2

CheckIds == 1..MaxChecks

\* A form as mounted: empty fields, nothing checked, nothing submitted.
FormMounted ==
    /\ amount = EmptyAmount
    /\ preflightResult = NoResult
    /\ checks = [c \in CheckIds |-> NoCheck]
    /\ isLoading = FALSE
    /\ produced = <<>>
    /\ sub = NoCall
    /\ isSubmitting = FALSE
    /\ rpcLog = {}
    /\ parseReports = {}
    /\ completed = "none"
    /\ gate = NoGate

\* No form is in use.
FormIdle == form = "none" /\ observed = FALSE /\ FormMounted

\* A call that has not been made.
NotClassified == [called |-> FALSE, input |-> "", output |-> ""]

NoPreflight == [pc |-> "idle", outcome |-> "none", text |-> "",
                result |-> [success |-> FALSE, warnings |-> <<>>, errors |-> <<>>]]

\* Neither simulateTransaction nor parseSorobanError has been called directly.
SimIdle == classified = NotClassified /\ preflight = NoPreflight

\* A read that has not resolved, and no VestingInfo yet.
NotRead == [got |-> FALSE, value |-> 0]

NoInfo == [present |-> FALSE, released |-> 0, vestedAmount |-> 0, releasableAmount |-> 0,
           currentLedger |-> 0]

\* The vesting page is not in use.
VestIdle ==
    /\ ledger = 0
    /\ released = 0
    /\ vpc = "idle"
    /\ gotSchedule = NotRead
    /\ gotVested = NotRead
    /\ info = NoInfo

\* No allowance has been approved and the allowances page has loaded nothing.
NoAllowance == [amount |-> 0, expirationLedger |-> 0]

AllowIdle ==
    /\ onChain = NoAllowance
    /\ apc = "idle"
    /\ spenders = <<>>
    /\ allowances = <<>>
    /\ allowancesError = "null"

\* fetchVestingSchedule has not been called.
DecodeIdle ==
    /\ dpc = "idle"
    /\ fieldMap = {}
    /\ dnext = 1
    /\ decoderCalls = <<>>
    /\ schedule = Pending

\* No fetchVestingSchedule is in use.
DecodeOff == reader = "none" /\ DecodeIdle

\* formatTokenAmount has not been called.
NoFormat == [called |-> FALSE, lib |-> "none", raw |-> "0", decimals |-> 0,
             locale |-> [name |-> "none", separator |-> "", minimumGroupingDigits |-> 1], out |-> ""]

FmtIdle == fmt = NoFormat

\* No revoke has been asked for.
RevokeIdle ==
    /\ rvCheck = "idle"
    /\ rvPreflight = "null"
    /\ showConfirm = FALSE
    /\ rvpc = "idle"
    /\ rvSteps = <<>>
    /\ requested = FALSE
    /\ confirmed = FALSE
    /\ rvNotice = "none"

\* No revoke surface is mounted.
RevokeOff == surface = "none" /\ RevokeIdle

\* `notification` is null.
NoNotification == [shown |-> FALSE, type |-> "none", message |-> "", shownAt |-> 0]

NoDismissal == [happened |-> FALSE, age |-> 0]

\* AllowanceManager has just mounted.
NotifyIdle ==
    /\ now = 0
    /\ notification = NoNotification
    /\ timers = {}
    /\ dismissal = NoDismissal

\* The ids of the allowances a list may show.
ListIds == {"1", "2", "3"}

\* The list has just mounted: nothing is being revoked.
ListIdle ==
    /\ revoking = "null"
    /\ inFlight = [id \in ListIds |-> 0]

\* No list is mounted.
ListOff == listed = [id \in ListIds |-> FALSE] /\ ListIdle

\* None of the components added after the allowances page is in use.
OtherIdle == DecodeOff /\ FmtIdle /\ RevokeOff /\ NotifyIdle /\ ListOff

\* No pipeline handler is running.
PipeIdle ==
    /\ pipe = "none"
    /\ ppc = "idle"
    /\ steps = <<>>
    /\ simCalls = 0
    /\ simReply = "none"
    /\ surfaced = "none"
    /\ lsRpcUrl = "unset"
    /\ startUrl = "none"
    /\ urlsUsed = {}

\* No submit call has been made.
SubmitIdle ==
    /\ spc = "idle"
    /\ sendStatus = "none"
    /\ errorResult = "none"
    /\ getResponse = "none"
    /\ attempts = 0
    /\ queries = 0
    /\ notFound = 0
    /\ outcome = Pending

InitSubmit ==
    /\ fn \in SubmitFns
    /\ SubmitIdle
    /\ PipeIdle
    /\ FormIdle
    /\ SimIdle
    /\ VestIdle
    /\ AllowIdle
    /\ OtherIdle

\* The call: fromXDR, then rpc.sendTransaction(tx) is awaited.
SubmitCall ==
    /\ spc = "idle"
    /\ spc' = "awaitSend"
    /\ UNCHANGED <<fn, sendStatus, errorResult, getResponse, attempts, queries, notFound, outcome>>

\* sendTransaction answers with a status.
SendReply(status) ==
    /\ spc = "awaitSend"
    /\ sendStatus' = status
    /\ IF SendRejected(status)
       THEN /\ spc' = "done"
            /\ \E payload \in ErrorResults :
                    /\ errorResult' = payload
                    /\ outcome' = Threw(RejectionMessage(fn, payload))
            /\ UNCHANGED queries
       ELSE IF fn = "submitTransaction"
       THEN \* let getResponse = await rpc.getTransaction(result.hash)
            /\ spc' = "awaitFirstGet"
            /\ queries' = queries + 1
            /\ UNCHANGED <<errorResult, outcome>>
       ELSE \* for (let i = 0; i < 30; i++) { await sleep(2000)
            /\ spc' = "sleeping"
            /\ UNCHANGED <<errorResult, queries, outcome>>
    /\ UNCHANGED <<fn, getResponse, attempts, notFound>>

\* The transport fails: the awaited rpc call rejects and the function rethrows.
SendThrows ==
    /\ spc = "awaitSend"
    /\ spc' = "done"
    /\ outcome' = Threw("transport")
    /\ UNCHANGED <<fn, sendStatus, errorResult, getResponse, attempts, queries, notFound>>

\* submitTransaction: the query before the loop answers; attempts stays 0.
FirstGetReply(status) ==
    /\ spc = "awaitFirstGet"
    /\ getResponse' = status
    /\ notFound' = IF status = "NOT_FOUND" THEN notFound + 1 ELSE notFound
    /\ AfterGetSubmitTransaction(status, attempts)
    /\ UNCHANGED <<fn, sendStatus, errorResult, attempts, queries>>

\* The timer fires and the next getTransaction is issued.
Wake ==
    /\ spc = "sleeping"
    /\ queries < MaxTrackedQueries
    /\ spc' = "awaitGet"
    /\ queries' = queries + 1
    /\ UNCHANGED <<fn, sendStatus, errorResult, getResponse, attempts, notFound, outcome>>

\* A query issued inside the loop answers.
GetReply(status) ==
    /\ spc = "awaitGet"
    /\ getResponse' = status
    /\ notFound' = IF status = "NOT_FOUND" THEN notFound + 1 ELSE notFound
    /\ IF fn = "submitTransaction"
       THEN /\ attempts' = NextAttempts(attempts)
            /\ AfterGetSubmitTransaction(status, NextAttempts(attempts))
       ELSE AfterGetSubmitTx(status, attempts)
    /\ UNCHANGED <<fn, sendStatus, errorResult, queries>>

GetThrows ==
    /\ spc \in {"awaitFirstGet", "awaitGet"}
    /\ spc' = "done"
    /\ outcome' = Threw("transport")
    /\ UNCHANGED <<fn, sendStatus, errorResult, getResponse, attempts, queries, notFound>>

NextSubmit ==
    \/ SubmitCall /\ UNCHANGED notSubmit
    \/ (\E status \in SendStatuses : SendReply(status)) /\ UNCHANGED notSubmit
    \/ SendThrows /\ UNCHANGED notSubmit
    \/ (\E status \in GetStatuses : FirstGetReply(status)) /\ UNCHANGED notSubmit
    \/ Wake /\ UNCHANGED notSubmit
    \/ (\E status \in GetStatuses : GetReply(status)) /\ UNCHANGED notSubmit
    \/ GetThrows /\ UNCHANGED notSubmit

SpecSubmit == InitSubmit /\ [][NextSubmit]_vars

\* The event loop runs every continuation whose promise has settled, timers fire,
\* and every rpc call settles (answers or rejects).
FairSpecSubmit == SpecSubmit /\ WF_vars(NextSubmit)

\* The lifecycle state an attempt is in, read off how the promise stands.
LifecycleState ==
    IF spc = "idle" THEN "Signed"
    ELSE IF spc = "awaitSend" THEN "Submitted"
    ELSE IF spc # "done" THEN "Pending"
    ELSE IF outcome.kind = "returned" THEN "Success"
    ELSE IF outcome.msg \in {"Transaction not found after polling",
                             "Transaction timed out waiting for confirmation"} THEN "TimedOut"
    ELSE "Failed"

(***************************************************************************)
(* Pipelines: the handlers that build, sign and submit one envelope        *)
(*   handleRelease        ClaimVesting: buildReleaseTx, sign, submitTx     *)
(*   handleActionMint,    AdminPanel.handleAction("mint" / "vesting"):     *)
(*   handleActionVesting  build, sign, mocked submission                   *)
(*   revoke               buildRevokeTransaction, sign, submitTransaction  *)
(***************************************************************************)

Pipes == {"handleRelease", "handleActionMint", "handleActionVesting", "revoke"}

AdminPipes == {"handleActionMint", "handleActionVesting"}

\* What the settings modal can store under soropad_rpc_url.
StoredUrls == {"", "urlA", "urlB"}

\* getRpcUrl(): localStorage.getItem("soropad_rpc_url") || DEFAULT_SOROBAN_RPC_URL
getRpcUrl == IF lsRpcUrl \in {"unset", ""} THEN "default" ELSE lsRpcUrl

\* The endpoint of the rpc client a step of pipeline p uses when it runs now:
\* lib/vesting keeps one module-level server (RPC_URL from the environment),
\* AdminPanel builds its server from the constant RPC_URL, lib/stellar calls
\* getRpcUrl() each time it needs a client.
RpcUrlOf(p) ==
    IF p = "handleRelease" THEN "env"
    ELSE IF p \in AdminPipes THEN "futurenet"
    ELSE getRpcUrl

\* submitTx for handleRelease, submitTransaction for the lib/stellar callers
SubmitFnOf(p) == IF p = "handleRelease" THEN "submitTx" ELSE "submitTransaction"

\* The answers of rpc.simulateTransaction: an error response, a success response,
\* or a response that is neither.
SimReplies == {"success", "error", "other"}

\* Mutant: the error response is not recognised.
IsSimulationErrorNever(r) == FALSE

\* rpc.Api.isSimulationError(sim)
IsSimulationError(r) == r = "error"

\* rpc.Api.isSimulationSuccess(sim)
IsSimulationSuccess(r) == r = "success"

\* The guards a handler checks before it does anything.
StartGuards == {"ok", "notConnected", "nothingToRelease"}

InitPipe ==
    /\ fn = "submitTransaction"
    /\ SubmitIdle
    /\ PipeIdle
    /\ FormIdle
    /\ SimIdle
    /\ VestIdle
    /\ AllowIdle
    /\ OtherIdle

\* The handler ends: what it showed the user, nothing further runs.
PipeEnds(msg) ==
    /\ ppc' = "done"
    /\ surfaced' = msg

\* The handler is invoked.
PipeStart(p, guard) ==
    /\ ppc = "idle"
    /\ pipe = "none"
    /\ pipe' = p
    /\ fn' = SubmitFnOf(p)
    /\ startUrl' = RpcUrlOf(p)
    /\ IF guard = "notConnected"
       THEN \* if (!connected || !publicKey || !info) return; if (!publicKey) return
            /\ p # "revoke"
            /\ PipeEnds("none")
            /\ UNCHANGED urlsUsed
       ELSE IF guard = "nothingToRelease"
       THEN \* if (info.releasableAmount <= 0n) toast.error(...)
            /\ p = "handleRelease"
            /\ PipeEnds("No tokens available to release right now.")
            /\ UNCHANGED urlsUsed
       ELSE IF p = "handleActionVesting"
       THEN \* await server.getLatestLedger()
            /\ ppc' = "awaitLedger"
            /\ urlsUsed' = {RpcUrlOf(p)}
            /\ UNCHANGED surfaced
       ELSE IF p = "revoke"
       THEN \* await horizon.loadAccount(sourcePublicKey): Horizon, not the rpc endpoint
            /\ ppc' = "awaitAccount"
            /\ UNCHANGED <<urlsUsed, surfaced>>
       ELSE \* await server.getAccount(...)
            /\ ppc' = "awaitAccount"
            /\ urlsUsed' = {RpcUrlOf(p)}
            /\ UNCHANGED surfaced
    /\ UNCHANGED <<steps, simCalls, simReply, lsRpcUrl>>
    /\ UNCHANGED <<spc, sendStatus, errorResult, getResponse, attempts, queries, notFound, outcome>>

\* handleAction("vesting"): getLatestLedger answers, getAccount is awaited.
LedgerReply ==
    /\ ppc = "awaitLedger"
    /\ ppc' = "awaitAccount"
    /\ urlsUsed' = urlsUsed \cup {RpcUrlOf(pipe)}
    /\ UNCHANGED <<pipe, steps, simCalls, simReply, surfaced, lsRpcUrl, startUrl>>
    /\ UNCHANGED submitVars

\* The account is loaded and the envelope is built. buildReleaseTx and
\* buildRevokeTransaction go on to simulate it; handleAction asks the wallet to
\* sign the envelope as built.
AccountReply ==
    /\ ppc = "awaitAccount"
    /\ IF pipe \in AdminPipes
       THEN /\ steps' = <<"build", "sign">>
            /\ ppc' = "awaitSign"
            /\ UNCHANGED <<simCalls, urlsUsed>>
       ELSE /\ steps' = <<"build", "simulate">>
            /\ simCalls' = simCalls + 1
            /\ urlsUsed' = urlsUsed \cup {RpcUrlOf(pipe)}
            /\ ppc' = "awaitSimulate"
    /\ UNCHANGED <<pipe, simReply, surfaced, lsRpcUrl, startUrl>>
    /\ UNCHANGED submitVars

\* An awaited call before signing rejects (transport failure): the handler's
\* catch block reports it.
CallThrows ==
    /\ ppc \in {"awaitLedger", "awaitAccount", "awaitSimulate"}
    /\ PipeEnds("transport")
    /\ UNCHANGED <<pipe, steps, simCalls, simReply, lsRpcUrl, startUrl, urlsUsed>>
    /\ UNCHANGED submitVars

\* Mutant: the envelope is handed to the wallet before it is assembled.
SignThenAssemble == <<"sign", "assemble">>

\* After a successful simulation: assembleTransaction(tx, sim).build().toXDR()
\* runs to completion, then the handler awaits signTransaction(xdr).
AssembleThenSign == <<"assemble", "sign">>

\* simulateTransaction answers.
SimulateReply(r) ==
    /\ ppc = "awaitSimulate"
    /\ simReply' = r
    /\ IF IsSimulationError(r)
       THEN \* throw new Error(`Simulation failed: ${sim.error}`)
            /\ PipeEnds("Simulation failed")
            /\ UNCHANGED steps
       ELSE IF ~IsSimulationSuccess(r)
       THEN \* buildRevokeTransaction throws; in buildReleaseTx assembleTransaction does
            /\ PipeEnds(IF pipe = "revoke" THEN "Transaction simulation was not successful"
                        ELSE "simulation incorrect")
            /\ UNCHANGED steps
       ELSE \* assembleTransaction(tx, sim).build().toXDR(); await signTransaction(xdr)
            /\ steps' = steps \o AssembleThenSign
            /\ ppc' = "awaitSign"
            /\ UNCHANGED surfaced
    /\ UNCHANGED <<pipe, simCalls, lsRpcUrl, startUrl, urlsUsed>>
    /\ UNCHANGED submitVars

\* The wallet answers the signing request.
SignReply(signed) ==
    /\ ppc = "awaitSign"
    /\ IF ~signed
       THEN /\ PipeEnds("User declined")
            /\ UNCHANGED <<steps, urlsUsed, spc>>
       ELSE IF pipe \in AdminPipes
       THEN \* await new Promise(r => setTimeout(r, 2000)): the mocked submission
            /\ ppc' = "awaitMock"
            /\ UNCHANGED <<steps, urlsUsed, spc, surfaced>>
       ELSE \* submitTx(signedXdr) / submitTransaction(signedXdr): sendTransaction is awaited
            /\ ppc' = "submitting"
            /\ steps' = Append(steps, "submit")
            /\ urlsUsed' = urlsUsed \cup {RpcUrlOf(pipe)}
            /\ spc' = "awaitSend"
            /\ UNCHANGED surfaced
    /\ UNCHANGED <<pipe, simCalls, simReply, lsRpcUrl, startUrl>>
    /\ UNCHANGED <<fn, sendStatus, errorResult, getResponse, attempts, queries, notFound, outcome>>

\* handleAction: the timeout passes; setLastTxHash(mockHash); setSuccess(action).
MockDone ==
    /\ ppc = "awaitMock"
    /\ PipeEnds("success")
    /\ UNCHANGED <<pipe, steps, simCalls, simReply, lsRpcUrl, startUrl, urlsUsed>>
    /\ UNCHANGED submitVars

\* The submit call has settled and the handler goes on.
SubmitSettled ==
    /\ ppc = "submitting"
    /\ spc = "done"
    /\ IF outcome.kind = "threw"
       THEN PipeEnds(outcome.msg)
       ELSE IF pipe = "handleRelease"
       THEN \* toast.success(...); await fetchVestingInfo(...)
            /\ ppc' = "awaitRefresh"
            /\ surfaced' = "Tokens released successfully!"
       ELSE PipeEnds("success")
    /\ UNCHANGED <<pipe, steps, simCalls, simReply, lsRpcUrl, startUrl, urlsUsed>>
    /\ UNCHANGED submitVars

\* handleRelease: the refresh settles; setInfo(updated) or toast.error(msg).
RefreshSettles(ok) ==
    /\ ppc = "awaitRefresh"
    /\ PipeEnds(IF ok THEN surfaced ELSE "transport")
    /\ UNCHANGED <<pipe, steps, simCalls, simReply, lsRpcUrl, startUrl, urlsUsed>>
    /\ UNCHANGED submitVars

\* SettingsProvider.setRpcUrl(url): localStorage.setItem(LS_RPC_KEY, url)
setRpcUrl(url) ==
    /\ lsRpcUrl # url
    /\ lsRpcUrl' = url
    /\ UNCHANGED <<pipe, ppc, steps, simCalls, simReply, surfaced, startUrl, urlsUsed>>
    /\ UNCHANGED submitVars

\* SettingsProvider.resetToDefaults(): localStorage.removeItem(LS_RPC_KEY)
resetToDefaults ==
    /\ lsRpcUrl # "unset"
    /\ lsRpcUrl' = "unset"
    /\ UNCHANGED <<pipe, ppc, steps, simCalls, simReply, surfaced, startUrl, urlsUsed>>
    /\ UNCHANGED submitVars

NextPipe ==
    \/ (\E p \in Pipes, guard \in StartGuards : PipeStart(p, guard)) /\ UNCHANGED notPipe
    \/ LedgerReply /\ UNCHANGED notPipe
    \/ AccountReply /\ UNCHANGED notPipe
    \/ CallThrows /\ UNCHANGED notPipe
    \/ (\E r \in SimReplies : SimulateReply(r)) /\ UNCHANGED notPipe
    \/ (\E signed \in BOOLEAN : SignReply(signed)) /\ UNCHANGED notPipe
    \/ MockDone /\ UNCHANGED notPipe
    \/ (\E status \in SendStatuses : SendReply(status)) /\ UNCHANGED notSubmit
    \/ SendThrows /\ UNCHANGED notSubmit
    \/ (\E status \in GetStatuses : FirstGetReply(status)) /\ UNCHANGED notSubmit
    \/ Wake /\ UNCHANGED notSubmit
    \/ (\E status \in GetStatuses : GetReply(status)) /\ UNCHANGED notSubmit
    \/ GetThrows /\ UNCHANGED notSubmit
    \/ SubmitSettled /\ UNCHANGED notPipe
    \/ (\E ok \in BOOLEAN : RefreshSettles(ok)) /\ UNCHANGED notPipe
    \/ (\E url \in StoredUrls : setRpcUrl(url)) /\ UNCHANGED notPipe
    \/ resetToDefaults /\ UNCHANGED notPipe

SpecPipe == InitPipe /\ [][NextPipe]_vars

\* The lifecycle steps performed on the envelope so far: polling has begun once
\* the first getTransaction is issued.
StepsDone == IF queries > 0 THEN Append(steps, "poll") ELSE steps

(***************************************************************************)
(* Claims about submit and poll                                            *)
(***************************************************************************)

\* Every status query of the attempt answered NOT_FOUND and the cap is used up.
PollingExhausted ==
    /\ spc = "done"
    /\ getResponse = "NOT_FOUND"
    /\ queries > 0
    /\ notFound = queries
    /\ ~AttemptsLeft(attempts)

\* C1: when every getTransaction query answers NOT_FOUND until the cap of 30 is
\* exceeded, the operation resolves (does not throw) to the outcome TimedOut.
C1_TimedOutResolvesWithoutThrow ==
    PollingExhausted => (outcome.kind = "returned" /\ outcome.msg = "TimedOut")

TerminalStates == {"Success", "Failed", "TimedOut"}

\* C3: every submission attempt eventually reaches one of the terminal states
\* Success, Failed, TimedOut, and once it is terminal nothing about it changes.
C3_ReachesOneTerminalState ==
    /\ <>(spc = "done" /\ LifecycleState \in TerminalStates)
    /\ [][spc = "done" => (spc' = "done" /\ outcome' = outcome /\ LifecycleState' = LifecycleState)]_vars

C3_Witness == spc = "done" /\ queries > 1 /\ LifecycleState = "Success"

\* C10 as stated: at most 30 getTransaction queries are issued for one transaction.
C10_AtMost30Queries == queries <= maxAttempts

\* C10 amended: at most 31 getTransaction queries are issued for one transaction
\* (the query before the loop plus at most 30 re-queries), and the loop terminates.
C10_AtMost31QueriesAndTerminates ==
    /\ [](queries <= maxAttempts + 1)
    /\ <>(spc = "done")

C10_Witness == spc = "done" /\ queries = maxAttempts + 1

(***************************************************************************)
(* Claims about the pipelines                                              *)
(***************************************************************************)

\* The lifecycle order Built -> Simulated -> Assembled -> Signed -> Submitted -> Pending,
\* as the step that must come immediately before each step.
StepBefore(step) ==
    CASE step = "simulate" -> "build"
      [] step = "assemble" -> "simulate"
      [] step = "sign" -> "assemble"
      [] step = "submit" -> "sign"
      [] step = "poll" -> "submit"
      [] OTHER -> "none"

\* C2: a lifecycle step invoked out of sequence (signing or submitting an envelope
\* that was not simulated and assembled, polling before submit) fails with
\* OutOfOrderStep; it never goes ahead.
C2_OutOfOrderFailsFast ==
    \A i \in DOMAIN StepsDone :
        i > 1 => \/ StepsDone[i - 1] = StepBefore(StepsDone[i])
                 \/ surfaced = "OutOfOrderStep"

StepsAfterSimulate == {"assemble", "sign", "submit", "poll"}

\* C4: when the simulation of a built transaction answers with an error, the
\* pipeline stops there: nothing is assembled, signed or submitted, the error is
\* shown to the caller and the simulation is not issued again.
C4_SimulationErrorStopsPipeline ==
    simReply = "error" =>
        /\ \A i \in DOMAIN StepsDone : StepsDone[i] \notin StepsAfterSimulate
        /\ spc = "idle"
        /\ simCalls = 1
        /\ ppc = "done"
        /\ surfaced = "Simulation failed"

C4_Witness == simReply = "error" /\ ppc = "done" /\ steps = <<"build", "simulate">>

\* C8: every rpc endpoint a pipeline's steps talk to is the one that was configured
\* when the pipeline started, whatever is stored in the settings meanwhile.
C8_EndpointCapturedAtStart == urlsUsed \subseteq {startUrl}

(***************************************************************************)
(* Error classifier: ERROR_MESSAGE_MAP and parseSorobanError               *)
(***************************************************************************)

\* String.prototype.toLowerCase, one character
LowerChar(c) ==
    CASE c = "A" -> "a" [] c = "B" -> "b" [] c = "C" -> "c" [] c = "D" -> "d"
      [] c = "E" -> "e" [] c = "F" -> "f" [] c = "G" -> "g" [] c = "H" -> "h"
      [] c = "I" -> "i" [] c = "J" -> "j" [] c = "K" -> "k" [] c = "L" -> "l"
      [] c = "M" -> "m" [] c = "N" -> "n" [] c = "O" -> "o" [] c = "P" -> "p"
      [] c = "Q" -> "q" [] c = "R" -> "r" [] c = "S" -> "s" [] c = "T" -> "t"
      [] c = "U" -> "u" [] c = "V" -> "v" [] c = "W" -> "w" [] c = "X" -> "x"
      [] c = "Y" -> "y" [] c = "Z" -> "z" [] OTHER -> c

RECURSIVE toLowerCase(_)
\* String.prototype.toLowerCase
toLowerCase(s) ==
    IF Len(s) = 0 THEN ""
    ELSE LowerChar(SubSeq(s, 1, 1)) \o toLowerCase(SubSeq(s, 2, Len(s)))

\* String.prototype.includes: k occurs in s as a substring
includes(s, k) ==
    \E i \in 0..(Len(s) - Len(k)) : SubSeq(s, i + 1, i + Len(k)) = k

\* ERROR_MESSAGE_MAP, in the order Object.entries yields it: <<key, message>>
ERROR_MESSAGE_MAP == <<
    <<"already initialized",
      "Contract is already initialized. Check if it was deployed previously.">>,
    <<"insufficient balance",
      "Insufficient token balance for this operation.">>,
    <<"insufficient allowance",
      "Insufficient allowance approved for the spender.">>,
    <<"amount must be positive",
      "Amount must be greater than zero.">>,
    <<"max_supply exceeded",
      "Operation would exceed the maximum supply cap.">>,
    <<"mint would exceed max_supply",
      "Minting this amount would exceed the maximum supply cap.">>,
    <<"account is frozen",
      "The account is frozen and cannot perform transfers.">>,
    <<"not initialized",
      "Contract is not initialized. This token may not exist.">>,
    <<"no pending admin",
      "No pending admin to accept. Did you propose_admin first?">>,
    <<"insufficient balance to burn",
      "Cannot burn more tokens than the account holds.">>,
    <<"schedule already exists",
      "A vesting schedule already exists for this recipient.">>,
    <<"no schedule found",
      "No vesting schedule found for this recipient.">>,
    <<"schedule has been revoked",
      "This vesting schedule has been revoked.">>,
    <<"nothing to release",
      "No vested tokens are available to release.">>,
    <<"schedule already revoked",
      "This schedule has already been revoked.">>,
    <<"end_ledger must be after cliff_ledger",
      "End ledger must be after cliff ledger.">>,
    <<"total_amount must be positive",
      "Total amount must be greater than zero.">>,
    <<"Invalid Stellar public key",
      "The provided Stellar address is not valid.">>,
    <<"max_supply must be positive",
      "Maximum supply must be greater than zero.">>,
    <<"initial_supply exceeds max_supply",
      "Initial supply cannot exceed maximum supply.">>,
    <<"allowance would overflow",
      "Allowance amount is too large and would overflow.">>,
    <<"approval would exceed max_supply",
      "Approval amount cannot exceed the token's maximum supply.">>
>>

\* The if-chain after the table: <<needle, message>>
PanicRules == <<
    <<"invocation failed",
      "Contract invocation failed. The transaction may have invalid parameters.">>,
    <<"insufficient funds",
      "Insufficient XLM balance to pay transaction fees.">>,
    <<"timeout",
      "The operation timed out. Please try again.">>,
    <<"deadline exceeded",
      "Transaction deadline exceeded. Please try again.">>,
    <<"build failed",
      "Failed to build transaction. Please check your inputs.">>
>>

\* The rules in the order parseSorobanError tries them: the table's keys are
\* lower-cased before the test, the if-chain's needles are used as written.
Rules ==
    [i \in 1..Len(ERROR_MESSAGE_MAP) |->
        <<toLowerCase(ERROR_MESSAGE_MAP[i][1]), ERROR_MESSAGE_MAP[i][2]>>] \o PanicRules

\* The rules whose needle occurs in the lower-cased error.
Matching(lowerError) == {i \in 1..Len(Rules) : includes(lowerError, Rules[i][1])}

\* Mutant: an unmapped error is replaced by a generic message.
UnmappedGeneric(errorMessage) == "An unknown error occurred."

\* `return errorMessage`: the original error if no mapping is found
Unmapped(errorMessage) == errorMessage

\* parseSorobanError(errorMessage): the message of the first rule that matches
parseSorobanError(errorMessage) ==
    LET lowerError == toLowerCase(errorMessage)
        hits == Matching(lowerError)
    IN  IF hits = {} THEN Unmapped(errorMessage)
        ELSE Rules[CHOOSE i \in hits : \A j \in hits : i <= j][2]

\* Error texts the classifier is given: each rule's own pattern, and texts as
\* contracts, the rpc server and the transport produce them.
ErrorTexts ==
    {ERROR_MESSAGE_MAP[i][1] : i \in 1..Len(ERROR_MESSAGE_MAP)}
    \cup {PanicRules[i][1] : i \in 1..Len(PanicRules)}
    \cup {"", "unauthorized", "Unauthorized: caller is not the admin",
          "some unknown error code 12345", "INSUFFICIENT BALANCE",
          "HostError: Error(Contract, #10): insufficient balance for transfer",
          "Request failed with status code 504", "Network Error"}

(***************************************************************************)
(* Transaction forms: the pre-flight check (handleCheck), the simulator   *)
(* hook behind it, and onSubmit.  MintForm and BurnForm share one shape;  *)
(* ApproveForm and TransferFromForm share another.                         *)
(***************************************************************************)
Forms == {"MintForm", "ApproveForm", "TransferFromForm"}

\* The forms whose handlers fetch the token's decimals before parsing.
FetchesDecimals(f) == f \in {"ApproveForm", "TransferFromForm"}

\* The schema's refinement of the amount field: parseFloat(v) is a number > 0.
ZodAmountValid(a) == a.whole # ""

\* BigInt(Math.floor(parseFloat(amount) * 1e7)) throws a RangeError exactly
\* when the product is not finite.
MintParseFails(a) == a.whole = "Infinity"

\* parseTokenAmount(amount, decimals): more fractional digits than decimals
\* are rejected, and so is a whole part that is not a number.
parseTokenAmountFails(a, d) == Len(a.frac) > d \/ a.whole = "Infinity"

\* The decimals a token contract may report.
DecimalsReplies == {0, 1}

\* What a simulate* call can meet: the three kinds of simulation response
\* (a success one with or without a result), a transport failure, a missing
\* network configuration, an address the SDK rejects.
SimOutcomes == {"error", "other", "noResult", "success", "throws", "noConfig", "badAddress"}

\* The outcomes in which the simulation request went out.
RpcOutcomes == {"error", "other", "noResult", "success", "throws"}

\* The endpoint simulateTransaction calls on the rpc server.
SimulateEndpointSend == "sendTransaction"

SimulateEndpoint == "simulateTransaction"

\* const friendlyError = parseSorobanError(sim.error) / parseSorobanError(errorMessage)
FriendlyErrorRaw(text) == text

FriendlyError(text) == parseSorobanError(text)

\* An error string the code writes out itself.
LiteralError(text) == text

\* The failure result simulateTransaction returns.
ErrorResultSuccess(err) == [success |-> TRUE, warnings |-> <<>>, errors |-> <<err>>]

ErrorResult(err) == [success |-> FALSE, warnings |-> <<>>, errors |-> <<err>>]

\* The PreflightCheckResult of a simulate* call, by what it met: o is the
\* kind of outcome, text the error text of the response (sim.error) or of the
\* exception.  A wrapper whose Address constructor throws returns nothing:
\* see WrapperThrows.
SimulationResultOf(o, text) ==
    CASE o = "noConfig" -> ErrorResult(LiteralError("Network configuration is required"))
      [] o = "error" -> ErrorResult(FriendlyError(text))
      [] o \in {"other", "noResult"} ->
            ErrorResult(LiteralError("Transaction simulation failed. Please check your inputs."))
      [] o = "success" -> [success |-> TRUE, warnings |-> <<>>, errors |-> <<>>]
      [] o = "throws" -> ErrorResult(FriendlyError(text))

\* The result in the forms' runs, where one error text stands for each kind.
SimulationResult(o) ==
    SimulationResultOf(o, IF o = "error" THEN "insufficient balance" ELSE "Network Error")

WrapperThrows(o) == o = "badAddress"

\* The values handleCheck gives setPreflightResult.
Loading == [present |-> TRUE, isLoading |-> TRUE, success |-> FALSE,
            errors |-> <<>>, warnings |-> <<>>]

Stored(res) == [present |-> TRUE, isLoading |-> FALSE, success |-> res.success,
                errors |-> res.errors, warnings |-> res.warnings]

Caught(message) == [present |-> TRUE, isLoading |-> FALSE, success |-> FALSE,
                    errors |-> <<LiteralError(message)>>, warnings |-> <<>>]

\* The remote calls each function makes.
RpcCall(by, endpoint) == [by |-> by, endpoint |-> endpoint]

\* The check button and the submit button as rendered.
CheckEnabled == ZodAmountValid(amount) /\ ~isLoading

SubmitEnabled ==
    /\ preflightResult.success
    /\ ~isSubmitting
    /\ form = "MintForm" => ZodAmountValid(amount)

CheckInFlight == \E c \in CheckIds : checks[c].pc # "idle"

ChecksUnderWay == Cardinality({c \in CheckIds : checks[c].pc # "idle"})

FreeSlot == CHOOSE c \in CheckIds :
                checks[c].pc = "idle" /\ \A b \in CheckIds : checks[b].pc = "idle" => c <= b

InitForm ==
    /\ fn = "submitTransaction"
    /\ SubmitIdle
    /\ PipeIdle
    /\ form \in Forms
    /\ observed = FALSE
    /\ FormMounted
    /\ SimIdle
    /\ VestIdle
    /\ AllowIdle
    /\ OtherIdle

\* A check ends: what the form stores and how the check is remembered.
CheckEnds(c, stored) ==
    /\ preflightResult' = stored
    /\ checks' = [b \in CheckIds |->
                    IF b = c THEN NoCheck
                    ELSE IF checks[b].pc = "idle" \/ ~observed THEN checks[b]
                    ELSE IF checks[b].order < checks[c].order
                    THEN [checks[b] EXCEPT !.stale = TRUE]
                    ELSE [checks[b] EXCEPT !.order = checks[b].order - 1]]
    /\ completed' = IF stored.success THEN "ok" ELSE "failed"

\* handleCheck up to its first await on the network: trigger() validates,
\* the loading marker is stored, and either the amount is converted and
\* simulator.check* is called (MintForm) or the decimals are requested.
CheckClick ==
    /\ form \in Forms
    /\ CheckEnabled
    /\ \E c \in CheckIds : checks[c].pc = "idle"
    /\ LET c == FreeSlot IN
        IF FetchesDecimals(form)
        THEN /\ preflightResult' = Loading
             /\ checks' = [checks EXCEPT ![c] = [pc |-> "awaitDecimals", amount |-> amount, reqs |-> 1,
                                                order |-> IF observed THEN ChecksUnderWay + 1 ELSE 0,
                                                stale |-> FALSE]]
             /\ rpcLog' = rpcLog \cup {RpcCall("fetchTokenDecimals", "simulateTransaction")}
             /\ UNCHANGED <<isLoading, parseReports, completed>>
        ELSE IF MintParseFails(amount)
        THEN /\ CheckEnds(c, Caught("RangeError"))
             /\ parseReports' = parseReports \cup {0}
             /\ UNCHANGED <<isLoading, rpcLog>>
        ELSE /\ preflightResult' = Loading
             /\ checks' = [checks EXCEPT ![c] = [pc |-> "awaitSimulate", amount |-> amount, reqs |-> 0,
                                                order |-> IF observed THEN ChecksUnderWay + 1 ELSE 0,
                                                stale |-> FALSE]]
             /\ isLoading' = TRUE
             /\ UNCHANGED <<rpcLog, parseReports, completed>>
    /\ UNCHANGED <<form, observed, amount, produced, sub, isSubmitting, gate>>

\* fetchTokenDecimals resolves: the amount is parsed, and simulator.check*
\* starts runSimulation unless the parse throws into the catch block.
DecimalsReply(c, d) ==
    /\ checks[c].pc = "awaitDecimals"
    /\ IF parseTokenAmountFails(checks[c].amount, d)
       THEN /\ CheckEnds(c, Caught("PrecisionError"))
            /\ parseReports' = parseReports \cup {checks[c].reqs}
            /\ UNCHANGED isLoading
       ELSE /\ checks' = [checks EXCEPT ![c].pc = "awaitSimulate"]
            /\ isLoading' = TRUE
            /\ UNCHANGED <<preflightResult, parseReports, completed>>
    /\ UNCHANGED <<form, observed, amount, produced, sub, isSubmitting, rpcLog, gate>>

\* fetchTokenDecimals rejects: the catch block stores the message.
DecimalsThrows(c) ==
    /\ checks[c].pc = "awaitDecimals"
    /\ CheckEnds(c, Caught("fetchTokenDecimals failed"))
    /\ UNCHANGED <<form, observed, amount, isLoading, produced, sub, isSubmitting, rpcLog,
                   parseReports, gate>>

\* The simulate* call behind simulator.check* settles: runSimulation's
\* finally clears isLoading, and handleCheck stores the result or, when the
\* wrapper threw, the message.
SimulateSettles(c, o) ==
    /\ checks[c].pc = "awaitSimulate"
    /\ isLoading' = FALSE
    /\ rpcLog' = IF o \in RpcOutcomes
                 THEN rpcLog \cup {RpcCall("simulateTransaction", SimulateEndpoint)}
                 ELSE rpcLog
    /\ IF WrapperThrows(o)
       THEN /\ CheckEnds(c, Caught("Invalid address"))
            /\ UNCHANGED produced
       ELSE /\ CheckEnds(c, Stored(SimulationResult(o)))
            /\ produced' = <<SimulationResult(o)>>
    /\ UNCHANGED <<form, observed, amount, sub, isSubmitting, parseReports, gate>>

\* MintForm's onDismiss, offered by the error, warning and success panels.
Dismiss ==
    /\ form = "MintForm"
    /\ preflightResult.present
    /\ ~preflightResult.isLoading
    /\ preflightResult.errors # <<>> \/ preflightResult.warnings # <<>> \/ preflightResult.success
    /\ preflightResult' = NoResult
    /\ UNCHANGED <<form, observed, amount, checks, isLoading, produced, sub, isSubmitting, rpcLog,
                   parseReports, completed, gate>>

\* The user types another amount: register("amount") updates the field only.
EditAmount(a) ==
    /\ form \in Forms
    /\ a # amount
    /\ amount' = a
    /\ UNCHANGED <<form, observed, preflightResult, checks, isLoading, produced, sub, isSubmitting,
                   rpcLog, parseReports, completed, gate>>

\* onSubmit up to its first await.  MintForm's submission is a placeholder
\* that logs and reports; the other forms request the decimals.
SubmitClick(connected) ==
    /\ form \in Forms
    /\ SubmitEnabled
    /\ IF form = "MintForm"
       THEN /\ gate' = [present |-> TRUE, inFlight |-> CheckInFlight, lastOk |-> completed = "ok"]
            /\ UNCHANGED <<sub, isSubmitting, rpcLog>>
       ELSE IF ~connected
       THEN UNCHANGED <<sub, isSubmitting, rpcLog, gate>>
       ELSE /\ gate' = [present |-> TRUE, inFlight |-> CheckInFlight, lastOk |-> completed = "ok"]
            /\ isSubmitting' = TRUE
            /\ sub' = [pc |-> "awaitDecimals", amount |-> amount, reqs |-> 1]
            /\ rpcLog' = rpcLog \cup {RpcCall("fetchTokenDecimals", "simulateTransaction")}
    /\ UNCHANGED <<form, observed, amount, preflightResult, checks, isLoading, produced, parseReports,
                   completed>>

\* onSubmit's catch and finally.
SubmitFails ==
    /\ sub' = NoCall
    /\ isSubmitting' = FALSE

\* fetchTokenDecimals resolves in onSubmit: parse, then build the transaction.
SubDecimalsReply(d) ==
    /\ sub.pc = "awaitDecimals"
    /\ IF parseTokenAmountFails(sub.amount, d)
       THEN /\ SubmitFails
            /\ parseReports' = parseReports \cup {sub.reqs}
       ELSE /\ sub' = [sub EXCEPT !.pc = "awaitBuild"]
            /\ UNCHANGED <<isSubmitting, parseReports>>
    /\ UNCHANGED <<form, observed, amount, preflightResult, checks, isLoading, produced, rpcLog,
                   completed, gate>>

\* build*Transaction resolves and signTransaction is called.
SubBuildReply ==
    /\ sub.pc = "awaitBuild"
    /\ sub' = [sub EXCEPT !.pc = "awaitSign"]
    /\ UNCHANGED <<form, observed, amount, preflightResult, checks, isLoading, produced, isSubmitting,
                   rpcLog, parseReports, completed, gate>>

\* The wallet signs and submitTransaction sends the signed envelope.
SubSignReply ==
    /\ sub.pc = "awaitSign"
    /\ sub' = [sub EXCEPT !.pc = "awaitSubmit"]
    /\ rpcLog' = rpcLog \cup {RpcCall("submitTransaction", "sendTransaction")}
    /\ UNCHANGED <<form, observed, amount, preflightResult, checks, isLoading, produced, isSubmitting,
                   parseReports, completed, gate>>

\* Any of onSubmit's awaits rejects.
SubThrows ==
    /\ sub.pc # "idle"
    /\ SubmitFails
    /\ UNCHANGED <<form, observed, amount, preflightResult, checks, isLoading, produced, rpcLog,
                   parseReports, completed, gate>>

\* submitTransaction returns the hash: reset() and setPreflightResult(null).
SubSubmitReply ==
    /\ sub.pc = "awaitSubmit"
    /\ sub' = NoCall
    /\ isSubmitting' = FALSE
    /\ amount' = EmptyAmount
    /\ preflightResult' = NoResult
    /\ UNCHANGED <<form, observed, checks, isLoading, produced, rpcLog, parseReports, completed, gate>>

NextForm ==
    \/ CheckClick /\ UNCHANGED notForm
    \/ (\E c \in CheckIds, d \in DecimalsReplies : DecimalsReply(c, d)) /\ UNCHANGED notForm
    \/ (\E c \in CheckIds : DecimalsThrows(c)) /\ UNCHANGED notForm
    \/ (\E c \in CheckIds, o \in SimOutcomes : SimulateSettles(c, o)) /\ UNCHANGED notForm
    \/ Dismiss /\ UNCHANGED notForm
    \/ (\E a \in AmountInputs : EditAmount(a)) /\ UNCHANGED notForm
    \/ (\E connected \in BOOLEAN : SubmitClick(connected)) /\ UNCHANGED notForm
    \/ (\E d \in DecimalsReplies : SubDecimalsReply(d)) /\ UNCHANGED notForm
    \/ SubBuildReply /\ UNCHANGED notForm
    \/ SubSignReply /\ UNCHANGED notForm
    \/ SubThrows /\ UNCHANGED notForm
    \/ SubSubmitReply /\ UNCHANGED notForm

SpecForm == InitForm /\ [][NextForm]_vars

(***************************************************************************)
(* Claims about the forms and the pre-flight simulation                   *)
(***************************************************************************)

\* C5: a pre-flight simulate call only ever calls the rpc server's simulate
\* endpoint; every call to sendTransaction is made by submitTransaction.
C5_SimulateNeverSends ==
    \A e \in rpcLog :
        /\ e.by = "simulateTransaction" => e.endpoint = "simulateTransaction"
        /\ e.endpoint = "sendTransaction" => e.by = "submitTransaction"

\* A run in which a simulation went out and, later, a transaction was sent.
C5_Witness ==
    /\ RpcCall("simulateTransaction", "simulateTransaction") \in rpcLog
    /\ RpcCall("submitTransaction", "sendTransaction") \in rpcLog

\* C6: a result simulate returned, and a result a form stored after a
\* check, has success = true only with an empty errors list.
C6_SuccessImpliesNoErrors ==
    /\ preflightResult.success => preflightResult.errors = <<>>
    /\ \A i \in 1..Len(produced) : produced[i].success => produced[i].errors = <<>>

\* A form holding the successful result a simulation just returned.
C6_Witness ==
    /\ produced # <<>>
    /\ produced[1].success
    /\ preflightResult = Stored(produced[1])

\* C7: whenever onSubmit went ahead, no check was in flight and the check
\* that completed last had succeeded.
C7_SubmitOnlyAfterSettledSuccess ==
    gate.present => (~gate.inFlight /\ gate.lastOk)

\* C9: every amount-parsing error a handler reports is reported before the
\* handler has issued a network request.
C9_ParseErrorBeforeNetwork ==
    \A n \in parseReports : n = 0

(***************************************************************************)
(* Further claims about submit and poll                                    *)
(***************************************************************************)

\* The getTransaction calls made after the first one.
Retries == IF queries = 0 THEN 0 ELSE queries - 1

\* C11: polling goes on after each NOT_FOUND and stops at the first SUCCESS;
\* after five NOT_FOUND answers and then SUCCESS the call has resolved to
\* Success with exactly five retries.
C11_FiveNotFoundThenSuccess ==
    /\ (getResponse = "NOT_FOUND" /\ notFound <= 5) =>
            (spc \in {"sleeping", "awaitGet"} \/ outcome = Threw("transport"))
    /\ getResponse = "SUCCESS" => (spc = "done" /\ LifecycleState = "Success")
    /\ (getResponse = "SUCCESS" /\ notFound = 5) => (Retries = 5 /\ attempts = 5)

\* Five NOT_FOUND answers, then SUCCESS.
C11_Witness == spc = "done" /\ getResponse = "SUCCESS" /\ notFound = 5

\* The errorResult a thrown message lets its reader recover.
PayloadNamed(msg) ==
    CASE msg = "Transaction failed: base64(txBAD_SEQ)" -> "txBAD_SEQ"
      [] msg = "Transaction failed: base64(txINSUFFICIENT_FEE)" -> "txINSUFFICIENT_FEE"
      [] OTHER -> "none"

\* C12: when sendTransaction rejects the envelope the attempt ends in Failed,
\* its message carries the rejection payload, and no getTransaction query is
\* made.
C12_RejectedSendFailsWithPayload ==
    sendStatus = "ERROR" =>
        /\ spc = "done"
        /\ LifecycleState = "Failed"
        /\ queries = 0
        /\ errorResult # "undefined" => PayloadNamed(outcome.msg) = errorResult

(***************************************************************************)
(* Further claims about the pipelines                                      *)
(***************************************************************************)

\* The place of each step in the lifecycle order.
StepRank(step) ==
    CASE step = "build" -> 1
      [] step = "simulate" -> 2
      [] step = "assemble" -> 3
      [] step = "sign" -> 4
      [] step = "submit" -> 5
      [] step = "poll" -> 6

\* The steps of the run whose awaited call has not settled yet.
InFlight ==
    (IF ppc = "awaitSimulate" THEN {"simulate"} ELSE {})
    \cup (IF ppc = "awaitSign" THEN {"sign"} ELSE {})
    \cup (IF spc = "awaitSend" THEN {"submit"} ELSE {})
    \cup (IF spc \in {"awaitFirstGet", "awaitGet", "sleeping"} /\ queries > 0
          THEN {"poll"} ELSE {})

\* C13: the steps of one run are performed in the order build, simulate,
\* assemble, sign, submit, poll; a step starts only when every step started
\* before it has completed, so at most one step is in flight, and it is the
\* one started last.
C13_StepsStrictlySequential ==
    /\ \A i, j \in DOMAIN StepsDone : i < j => StepRank(StepsDone[i]) < StepRank(StepsDone[j])
    /\ Cardinality(InFlight) <= 1
    /\ \A step \in InFlight : StepsDone # <<>> /\ StepsDone[Len(StepsDone)] = step

\* A run that went through all six steps, the last one still in flight.
C13_Witness ==
    /\ StepsDone = <<"build", "simulate", "assemble", "sign", "submit", "poll">>
    /\ InFlight = {"poll"}

(***************************************************************************)
(* The simulator called directly: simulateTransaction (and the simulate*  *)
(* wrappers in front of it) and parseSorobanError, over the error texts   *)
(***************************************************************************)

\* Mutant: the catch block of simulateTransaction rethrows.
SettledAsUncaught(o) == IF WrapperThrows(o) \/ o = "throws" THEN "threw" ELSE "returned"

\* How the promise of a simulate* call settles: simulateTransaction catches
\* everything inside its try block; only a wrapper's own argument
\* conversion throws past it.
SettledAs(o) == IF WrapperThrows(o) THEN "threw" ELSE "returned"

\* The outcomes that come with an error text.
TextOutcomes == {"error", "throws"}

InitSimulate ==
    /\ fn = "submitTransaction"
    /\ SubmitIdle
    /\ PipeIdle
    /\ FormIdle
    /\ SimIdle
    /\ VestIdle
    /\ AllowIdle
    /\ OtherIdle

\* A simulate* function is called and awaits rpc.simulateTransaction(tx).
SimulateCall ==
    /\ preflight.pc # "awaiting"
    /\ preflight' = [NoPreflight EXCEPT !.pc = "awaiting"]
    /\ UNCHANGED classified

\* The call settles: o is what it met, text the error text that came with it.
SimulateAnswers(o, text) ==
    /\ preflight.pc = "awaiting"
    /\ o \in TextOutcomes \/ text = ""
    /\ preflight' = [pc |-> SettledAs(o), outcome |-> o, text |-> text,
                     result |-> IF WrapperThrows(o) THEN NoPreflight.result
                                ELSE SimulationResultOf(o, text)]
    /\ UNCHANGED classified

\* parseSorobanError(text) is called.
ParseCall(text) ==
    /\ classified' = [called |-> TRUE, input |-> text, output |-> parseSorobanError(text)]
    /\ UNCHANGED preflight

NextSimulate ==
    \/ SimulateCall /\ UNCHANGED notSim
    \/ (\E o \in SimOutcomes, text \in ErrorTexts : SimulateAnswers(o, text)) /\ UNCHANGED notSim
    \/ (\E text \in ErrorTexts : ParseCall(text)) /\ UNCHANGED notSim

SpecSimulate == InitSimulate /\ [][NextSimulate]_vars

\* C14: when the simulate endpoint reports a simulation error, simulate
\* returns success = false with the classifier's reading of the remote text
\* as its error; "insufficient balance" gives the insufficient-balance message.
C14_SimulationErrorIsClassified ==
    preflight.outcome = "error" =>
        /\ preflight.pc = "returned"
        /\ ~preflight.result.success
        /\ preflight.result.errors = <<parseSorobanError(preflight.text)>>
        /\ preflight.text = "insufficient balance" =>
                preflight.result.errors = <<"Insufficient token balance for this operation.">>

C14_Witness ==
    /\ preflight.pc = "returned"
    /\ preflight.outcome = "error"
    /\ preflight.text = "insufficient balance"

\* C15: when the rpc call throws, simulate does not throw: it returns
\* success = false with exactly one error.
C15_TransportFailureIsOneError ==
    preflight.outcome = "throws" =>
        /\ preflight.pc = "returned"
        /\ ~preflight.result.success
        /\ Len(preflight.result.errors) = 1

C15_Witness ==
    /\ preflight.pc = "returned"
    /\ preflight.outcome = "throws"
    /\ preflight.text = "Network Error"

\* The messages the rules can give.
RuleMessages == {Rules[i][2] : i \in 1..Len(Rules)}

\* C16: the classifier returns a value for every input, a rule's message or
\* the input itself, and for an input no rule matches the value contains the
\* original text.
C16_ClassifierTotalKeepsUnmatched ==
    classified.called =>
        /\ classified.output \in RuleMessages \cup {classified.input}
        /\ Matching(toLowerCase(classified.input)) = {} =>
                includes(classified.output, classified.input)

C16_Witness ==
    /\ classified.called
    /\ classified.input = "some unknown error code 12345"
    /\ classified.output = "some unknown error code 12345"

\* C17: an error text that is exactly the pattern of a rule of the table is
\* given that rule's message, not the message of a rule tried earlier.
C17_NoRuleShadowed ==
    \A i \in 1..Len(ERROR_MESSAGE_MAP) :
        (classified.called /\ classified.input = ERROR_MESSAGE_MAP[i][1]) =>
            classified.output = ERROR_MESSAGE_MAP[i][2]

\* C18: an error text containing "unauthorized" is given the message
\* "You don't have permission for this operation."
C18_UnauthorizedIsMapped ==
    (classified.called /\ includes(toLowerCase(classified.input), "unauthorized")) =>
        classified.output = "You don't have permission for this operation."

(***************************************************************************)
(* Vesting: the contract's schedule as the ledger advances, and            *)
(* fetchVestingInfo reading it                                             *)
(***************************************************************************)

\* The ledgers the model lets the network close.
MaxLedger == 4

\* The schedule of the recipient whose page is open.
Schedule == [totalAmount |-> 4, cliffLedger |-> 1, endLedger |-> 3]

\* The contract's vested_amount at ledger l: nothing before the cliff, all of
\* it from the end, linear in between.
VestedAt(l) ==
    IF l < Schedule.cliffLedger THEN 0
    ELSE IF l >= Schedule.endLedger THEN Schedule.totalAmount
    ELSE (Schedule.totalAmount * (l - Schedule.cliffLedger))
            \div (Schedule.endLedger - Schedule.cliffLedger)

\* const releasableAmount = vestedAmount - schedule.released
Releasable(vestedAmount, scheduleReleased) == vestedAmount - scheduleReleased

InitVesting ==
    /\ fn = "submitTransaction"
    /\ SubmitIdle
    /\ PipeIdle
    /\ FormIdle
    /\ SimIdle
    /\ VestIdle
    /\ AllowIdle
    /\ OtherIdle

\* The network closes a ledger.
LedgerCloses ==
    /\ ledger < MaxLedger
    /\ ledger' = ledger + 1
    /\ UNCHANGED <<released, vpc, gotSchedule, gotVested, info>>

\* A release transaction of the recipient is applied: the contract pays out
\* what has vested and records it as released.
ContractRelease ==
    /\ released < VestedAt(ledger)
    /\ released' = VestedAt(ledger)
    /\ UNCHANGED <<ledger, vpc, gotSchedule, gotVested, info>>

\* fetchVestingInfo is called: both reads are issued (Promise.all).
FetchInfoCall ==
    /\ vpc \in {"idle", "done", "threw"}
    /\ vpc' = "awaitBoth"
    /\ gotSchedule' = NotRead
    /\ gotVested' = NotRead
    /\ UNCHANGED <<ledger, released, info>>

\* Promise.all resolves once both reads are in; getLatestLedger is awaited.
AfterRead(sch, vst) ==
    vpc' = IF sch.got /\ vst.got THEN "awaitLedger" ELSE "awaitBoth"

\* get_schedule is answered from the contract's state at the ledger it runs on.
ScheduleReply ==
    /\ vpc = "awaitBoth"
    /\ ~gotSchedule.got
    /\ gotSchedule' = [got |-> TRUE, value |-> released]
    /\ AfterRead(gotSchedule', gotVested)
    /\ UNCHANGED <<ledger, released, gotVested, info>>

\* vested_amount is answered from the contract's state at the ledger it runs on.
VestedReply ==
    /\ vpc = "awaitBoth"
    /\ ~gotVested.got
    /\ gotVested' = [got |-> TRUE, value |-> VestedAt(ledger)]
    /\ AfterRead(gotSchedule, gotVested')
    /\ UNCHANGED <<ledger, released, gotSchedule, info>>

\* One of the awaited calls rejects and fetchVestingInfo rejects with it.
FetchInfoThrows ==
    /\ vpc \in {"awaitBoth", "awaitLedger"}
    /\ vpc' = "threw"
    /\ UNCHANGED <<ledger, released, gotSchedule, gotVested, info>>

\* getLatestLedger answers and the VestingInfo is returned.
LatestLedgerReply ==
    /\ vpc = "awaitLedger"
    /\ vpc' = "done"
    /\ info' = [present |-> TRUE,
                released |-> gotSchedule.value,
                vestedAmount |-> gotVested.value,
                releasableAmount |-> Releasable(gotVested.value, gotSchedule.value),
                currentLedger |-> ledger]
    /\ UNCHANGED <<ledger, released, gotSchedule, gotVested>>

NextVesting ==
    \/ LedgerCloses /\ UNCHANGED notVest
    \/ ContractRelease /\ UNCHANGED notVest
    \/ FetchInfoCall /\ UNCHANGED notVest
    \/ ScheduleReply /\ UNCHANGED notVest
    \/ VestedReply /\ UNCHANGED notVest
    \/ FetchInfoThrows /\ UNCHANGED notVest
    \/ LatestLedgerReply /\ UNCHANGED notVest

SpecVesting == InitVesting /\ [][NextVesting]_vars

\* C19: the releasableAmount of a VestingInfo is max(0, vestedAmount - released),
\* never negative.
C19_ReleasableIsClampedDifference ==
    info.present =>
        /\ info.releasableAmount >= 0
        /\ info.releasableAmount =
              (IF info.vestedAmount - info.released > 0
               THEN info.vestedAmount - info.released ELSE 0)

(***************************************************************************)
(* Allowances: the token contract's allowance as the ledger advances, and  *)
(* the allowances page loading and presenting it                           *)
(***************************************************************************)

\* The amounts an owner approves (0 revokes).
ApprovedAmounts == {0, 5}

\* The allowance the contract's allowance() reports at ledger l: the stored
\* amount until the expiration ledger is reached, 0 from then on.
EffectiveAllowance(l) == IF l < onChain.expirationLedger THEN onChain.amount ELSE 0

\* const isExpired = amount <= BigInt(0)
IsExpired(amt) == amt <= 0

\* AllowancesList: allowances.filter((a) => !a.isExpired)
activeAllowances == SelectSeq(allowances, LAMBDA a : ~a.isExpired)

InitAllowances ==
    /\ fn = "submitTransaction"
    /\ SubmitIdle
    /\ PipeIdle
    /\ FormIdle
    /\ SimIdle
    /\ VestIdle
    /\ AllowIdle
    /\ OtherIdle

\* An approve transaction of the owner is applied.
ContractApprove(amt, expirationLedger) ==
    /\ expirationLedger > ledger
    /\ onChain' = [amount |-> amt, expirationLedger |-> expirationLedger]
    /\ UNCHANGED <<apc, spenders, allowances, allowancesError>>

\* loadAllowances is called with a contract id and a connected wallet:
\* fetchTokenDecimals is awaited.
LoadCall ==
    /\ apc \in {"idle", "done"}
    /\ apc' = "awaitDecimals"
    /\ allowancesError' = "null"
    /\ UNCHANGED <<onChain, spenders, allowances>>

\* The decimals are in: fetchCurrentLedger and fetchApprovedSpendersFromEvents
\* are awaited together.
LoadDecimalsReply ==
    /\ apc = "awaitDecimals"
    /\ apc' = "awaitSpenders"
    /\ UNCHANGED <<onChain, spenders, allowances, allowancesError>>

\* Both are in; the ledger is dropped, and fetchTokenAllowance is awaited
\* for every spender an approval event names.
LoadSpendersReply ==
    /\ apc = "awaitSpenders"
    /\ spenders' = IF onChain = NoAllowance THEN <<>> ELSE <<"spender">>
    /\ apc' = "awaitAllowance"
    /\ UNCHANGED <<onChain, allowances, allowancesError>>

\* The allowance reads are in: one AllowanceInfo per spender, those with
\* amount "0" filtered out, stored by setAllowances.
LoadAllowanceReply ==
    /\ apc = "awaitAllowance"
    /\ LET results == [i \in DOMAIN spenders |->
                          [spenderAddress |-> spenders[i],
                           amount |-> EffectiveAllowance(ledger),
                           isExpired |-> IsExpired(EffectiveAllowance(ledger))]]
       IN  allowances' = SelectSeq(results, LAMBDA a : a.amount # 0)
    /\ apc' = "done"
    /\ UNCHANGED <<onChain, spenders, allowancesError>>

\* An awaited call rejects: the catch block stores the message.
LoadThrows ==
    /\ apc \in {"awaitDecimals", "awaitSpenders", "awaitAllowance"}
    /\ apc' = "done"
    /\ allowancesError' = "Failed to load allowances"
    /\ UNCHANGED <<onChain, spenders, allowances>>

NextAllowances ==
    \/ LedgerCloses /\ UNCHANGED <<submitVars, pipeVars, formVars, simVars, allowVars, otherVars>>
    \/ (\E amt \in ApprovedAmounts, l \in 1..MaxLedger : ContractApprove(amt, l))
            /\ UNCHANGED notAllow
    \/ LoadCall /\ UNCHANGED notAllow
    \/ LoadDecimalsReply /\ UNCHANGED notAllow
    \/ LoadSpendersReply /\ UNCHANGED notAllow
    \/ LoadAllowanceReply /\ UNCHANGED notAllow
    \/ LoadThrows /\ UNCHANGED notAllow

SpecAllowances == InitAllowances /\ [][NextAllowances]_vars

\* C20: an allowance the page presents as active has not reached its
\* expiration ledger.
C20_ActiveOnlyBeforeExpiration ==
    \A i \in DOMAIN activeAllowances : ledger < onChain.expirationLedger
(***************************************************************************)
(* Decoding the get_schedule struct (fetchVestingSchedule, both libraries) *)
(***************************************************************************)

ScheduleReaders == {"stellar.fetchVestingSchedule", "vesting.fetchVestingSchedule"}

\* The fields of the returned object literal, in the order it evaluates them.
ScheduleFields == <<"recipient", "total_amount", "cliff_ledger", "end_ledger", "released", "revoked">>

FieldNames == {ScheduleFields[i] : i \in 1..Len(ScheduleFields)}

\* What a lookup gives: it throws, or it hands on a value that is there or not.
LookupThrew(m) == [threw |-> TRUE, present |-> FALSE, msg |-> m]
LookupValue(p) == [threw |-> FALSE, present |-> p, msg |-> "none"]

\* lib/stellar: entries.find(...); if (!entry) throw new Error(`Missing struct field: ${name}`)
getStructField(entries, name) ==
    IF name \in entries
    THEN LookupValue(TRUE)
    ELSE LookupThrew("Missing struct field: " \o name)

\* lib/vesting: fieldMap.get(name)! -- Map.get gives undefined for an absent
\* key and the non-null assertion checks nothing at run time.
fieldMapGet(entries, name) == LookupValue(name \in entries)

Lookup(r, entries, name) ==
    IF r = "stellar.fetchVestingSchedule"
    THEN getStructField(entries, name)
    ELSE fieldMapGet(entries, name)

\* What a decoder does with undefined: val.i128(), val.u32(), val.b() and
\* Address.fromScVal(val) all dereference it.
DecoderOnUndefined == "TypeError: Cannot read properties of undefined"

\* result.map() of a value that is no map: lib/vesting tests it, lib/stellar
\* asserts it non-null and calls entries.find on it.
NotAMap(r) ==
    IF r = "stellar.fetchVestingSchedule"
    THEN "TypeError: Cannot read properties of null"
    ELSE "Unexpected result type from get_schedule"

InitDecode ==
    /\ ListOff
    /\ NotifyIdle
    /\ RevokeOff
    /\ FmtIdle
    /\ fn = "none"
    /\ reader \in ScheduleReaders
    /\ DecodeIdle
    /\ SubmitIdle
    /\ PipeIdle
    /\ FormIdle
    /\ SimIdle
    /\ VestIdle
    /\ AllowIdle

\* fetchVestingSchedule is called and awaits simulateCall.
FetchScheduleCall ==
    /\ dpc \in {"idle", "done"}
    /\ dpc' = "simulateCall"
    /\ fieldMap' = {}
    /\ dnext' = 1
    /\ decoderCalls' = <<>>
    /\ schedule' = Pending
    /\ UNCHANGED reader

\* simulateCall resolves with a map that has the given keys.
ScheduleMapReply(keys) ==
    /\ dpc = "simulateCall"
    /\ dpc' = "decode"
    /\ fieldMap' = keys
    /\ UNCHANGED <<reader, dnext, decoderCalls, schedule>>

\* simulateCall resolves with a value that is not a map.
ScheduleNotMapReply ==
    /\ dpc = "simulateCall"
    /\ dpc' = "done"
    /\ schedule' = Threw(NotAMap(reader))
    /\ UNCHANGED <<reader, fieldMap, dnext, decoderCalls>>

\* simulateCall rejects (simulation error, no result, transport failure).
ScheduleCallThrows ==
    /\ dpc = "simulateCall"
    /\ dpc' = "done"
    /\ schedule' = Threw("Simulation failed")
    /\ UNCHANGED <<reader, fieldMap, dnext, decoderCalls>>

\* The next property of the object literal: look the field up, decode it.
DecodeField ==
    /\ dpc = "decode"
    /\ LET name == ScheduleFields[dnext]
           got == Lookup(reader, fieldMap, name)
       IN IF got.threw
          THEN /\ schedule' = Threw(got.msg)
               /\ dpc' = "done"
               /\ UNCHANGED <<dnext, decoderCalls>>
          ELSE /\ decoderCalls' = Append(decoderCalls, [field |-> name, present |-> got.present])
               /\ IF ~got.present
                  THEN /\ schedule' = Threw(DecoderOnUndefined)
                       /\ dpc' = "done"
                       /\ UNCHANGED dnext
                  ELSE IF dnext = Len(ScheduleFields)
                       THEN /\ schedule' = Returned("schedule")
                            /\ dpc' = "done"
                            /\ UNCHANGED dnext
                       ELSE /\ dnext' = dnext + 1
                            /\ UNCHANGED <<dpc, schedule>>
    /\ UNCHANGED <<reader, fieldMap>>

NextDecode ==
    \/ FetchScheduleCall /\ UNCHANGED notDecode
    \/ (\E keys \in SUBSET FieldNames : ScheduleMapReply(keys)) /\ UNCHANGED notDecode
    \/ ScheduleNotMapReply /\ UNCHANGED notDecode
    \/ ScheduleCallThrows /\ UNCHANGED notDecode
    \/ DecodeField /\ UNCHANGED notDecode

SpecDecode == InitDecode /\ [][NextDecode]_vars

\* The first field, in evaluation order, that the returned map lacks.
FirstAbsent ==
    ScheduleFields[CHOOSE i \in 1..Len(ScheduleFields) :
                       /\ ScheduleFields[i] \notin fieldMap
                       /\ \A j \in 1..(i - 1) : ScheduleFields[j] \in fieldMap]

\* C21: looking a field up by name in a decoded map fails with a MissingField
\* error naming the field when the key is absent, and an absent field is never
\* handed to a decoder.
C21_AbsentFieldFailsMissingField ==
    /\ \A i \in 1..Len(decoderCalls) : decoderCalls[i].present
    /\ (dpc = "done" /\ fieldMap # {} /\ fieldMap # FieldNames)
           => schedule = Threw("Missing struct field: " \o FirstAbsent)
(***************************************************************************)
(* formatTokenAmount (lib/vesting and lib/stellar)                         *)
(*                                                                         *)
(* A bigint is kept as its decimal digits, most significant first and      *)
(* without leading zeros: the amounts exceed the checker's integers. The   *)
(* divisor is always 10 ** decimals, so the quotient is the digits before  *)
(* the last `decimals` ones and the remainder is the value of those last.  *)
(***************************************************************************)

\* The largest raw amount enumerated besides the named examples, and the
\* largest number of decimals besides the network's 7.
MaxRaw == 1010
MaxDecimals == 2

FormatLibs == {"lib/vesting", "lib/stellar"}

DigitChar(d) ==
    CASE d = 0 -> "0" [] d = 1 -> "1" [] d = 2 -> "2" [] d = 3 -> "3" [] d = 4 -> "4"
      [] d = 5 -> "5" [] d = 6 -> "6" [] d = 7 -> "7" [] d = 8 -> "8" [] d = 9 -> "9"

RECURSIVE DigitsOf(_)
\* BigInt.prototype.toString of a non-negative value
DigitsOf(n) ==
    IF n < 10 THEN DigitChar(n) ELSE DigitsOf(n \div 10) \o DigitChar(n % 10)

RECURSIVE StripLeadingZeros(_)
\* the canonical digits of a value: no leading zero but for zero itself
StripLeadingZeros(s) ==
    IF Len(s) > 1 /\ SubSeq(s, 1, 1) = "0" THEN StripLeadingZeros(SubSeq(s, 2, Len(s))) ELSE s

\* const whole = raw / divisor, divisor = 10 ** decimals
WholePart(num, decimals) ==
    IF Len(num) > decimals THEN SubSeq(num, 1, Len(num) - decimals) ELSE "0"

\* const frac = raw % divisor
FracPart(num, decimals) ==
    IF decimals = 0 THEN "0"
    ELSE IF Len(num) > decimals
         THEN StripLeadingZeros(SubSeq(num, Len(num) - decimals + 1, Len(num)))
         ELSE num

RECURSIVE padStart(_, _, _)
\* String.prototype.padStart with a one-character filler
padStart(s, n, filler) ==
    IF Len(s) >= n THEN s ELSE padStart(filler \o s, n, filler)

RECURSIVE StripTrailingZeros(_)
\* .replace(/0+$/, "")
StripTrailingZeros(s) ==
    IF Len(s) > 0 /\ SubSeq(s, Len(s), Len(s)) = "0"
    THEN StripTrailingZeros(SubSeq(s, 1, Len(s) - 1))
    ELSE s

\* The default locales a runtime may have: the group separator, and the
\* least number of digits before the first separator for grouping to apply.
Locales == {[name |-> "en-US", separator |-> ",", minimumGroupingDigits |-> 1],
            [name |-> "de-DE", separator |-> ".", minimumGroupingDigits |-> 1],
            [name |-> "es-ES", separator |-> ".", minimumGroupingDigits |-> 2]}

NoLocale == [name |-> "none", separator |-> "", minimumGroupingDigits |-> 1]

RECURSIVE Grouped(_, _)
Grouped(s, separator) ==
    IF Len(s) <= 3 THEN s
    ELSE Grouped(SubSeq(s, 1, Len(s) - 3), separator) \o separator
             \o SubSeq(s, Len(s) - 2, Len(s))

\* BigInt.prototype.toLocaleString() in the runtime's default locale
toLocaleString(digits, locale) ==
    IF Len(digits) < 3 + locale.minimumGroupingDigits
    THEN digits
    ELSE Grouped(digits, locale.separator)

\* lib/vesting: whole.toString() (template literal); lib/stellar: whole.toLocaleString()
WholeText(lib, whole, locale) ==
    IF lib = "lib/stellar" THEN toLocaleString(whole, locale) ELSE whole

\* formatTokenAmount of either library
formatTokenAmount(lib, raw, decimals, locale) ==
    IF lib = "lib/stellar" /\ raw = "N/A" THEN raw
    ELSE LET num == StripLeadingZeros(raw)
             whole == WholePart(num, decimals)
             frac == FracPart(num, decimals)
             fracStr == StripTrailingZeros(padStart(frac, decimals, "0"))
         IN IF frac = "0"
            THEN WholeText(lib, whole, locale)
            ELSE WholeText(lib, whole, locale) \o "." \o fracStr

\* The raw amounts and decimals a call is made with.
RawAmounts == {DigitsOf(n) : n \in 0..MaxRaw} \cup {"10000000000"}

DecimalsArgs == (0..MaxDecimals) \cup {7}

\* The calls that can be made: lib/vesting's takes a bigint, lib/stellar's a
\* string that may be "N/A" and prints in the runtime's default locale.
FormatArgs ==
    [called : {FALSE}, lib : {"lib/vesting"}, raw : RawAmounts, decimals : DecimalsArgs,
     locale : {NoLocale}, out : {""}]
    \cup [called : {FALSE}, lib : {"lib/stellar"}, raw : RawAmounts \cup {"N/A"},
          decimals : DecimalsArgs, locale : Locales, out : {""}]

InitFmt ==
    /\ ListOff
    /\ NotifyIdle
    /\ RevokeOff
    /\ fn = "none"
    /\ fmt \in FormatArgs
    /\ DecodeOff
    /\ SubmitIdle
    /\ PipeIdle
    /\ FormIdle
    /\ SimIdle
    /\ VestIdle
    /\ AllowIdle

\* The call of lib/vesting's formatTokenAmount(raw, decimals) returns.
FormatVesting ==
    /\ ~fmt.called
    /\ fmt.lib = "lib/vesting"
    /\ fmt' = [fmt EXCEPT !.called = TRUE,
                          !.out = formatTokenAmount(fmt.lib, fmt.raw, fmt.decimals, fmt.locale)]

\* The call of lib/stellar's formatTokenAmount(raw, decimals) returns.
FormatStellar ==
    /\ ~fmt.called
    /\ fmt.lib = "lib/stellar"
    /\ fmt' = [fmt EXCEPT !.called = TRUE,
                          !.out = formatTokenAmount(fmt.lib, fmt.raw, fmt.decimals, fmt.locale)]

NextFmt ==
    \/ FormatVesting /\ UNCHANGED notFmt
    \/ FormatStellar /\ UNCHANGED notFmt

SpecFmt == InitFmt /\ [][NextFmt]_vars

\* The display the amount should get: quotient, then "." and the remainder
\* padded to `decimals` digits without its trailing zeros, unless it is zero.
QuotientDotRemainder(raw, decimals) ==
    LET remainder == StripTrailingZeros(padStart(FracPart(raw, decimals), decimals, "0"))
    IN IF remainder = "" \/ FracPart(raw, decimals) = "0"
       THEN WholePart(raw, decimals)
       ELSE WholePart(raw, decimals) \o "." \o remainder

\* C22: the display of (raw, decimals) is the integer quotient of raw by
\* 10^decimals, then "." and the remainder zero-padded to `decimals` digits
\* with trailing zeros stripped, or the integer part alone when the remainder
\* is zero; the display of (10000000000, 7) is exactly "1000".
C22_DisplayIsQuotientDotRemainder ==
    (fmt.called /\ fmt.raw # "N/A") =>
        /\ fmt.out = QuotientDotRemainder(fmt.raw, fmt.decimals)
        /\ (fmt.raw = "10000000000" /\ fmt.decimals = 7) => fmt.out = "1000"
(***************************************************************************)
(* Revoking an allowance: the RevokeAllowanceForm, and the allowance cards *)
(* of the AllowancesPage (AllowanceCard -> AllowancesList.handleRevoke ->  *)
(* AllowancesPage.handleRevokeAllowance)                                   *)
(***************************************************************************)

RevokeSurfaces == {"RevokeAllowanceForm", "AllowancesPage"}

InitRevoke ==
    /\ ListOff
    /\ NotifyIdle
    /\ fn = "none"
    /\ surface \in RevokeSurfaces
    /\ RevokeIdle
    /\ DecodeOff
    /\ FmtIdle
    /\ SubmitIdle
    /\ PipeIdle
    /\ FormIdle
    /\ SimIdle
    /\ VestIdle
    /\ AllowIdle

\* RevokeAllowanceForm.handleCheck up to the await of checkRevokeAllowance
\* (the button is disabled while simulator.isLoading).
RvCheckClick ==
    /\ surface = "RevokeAllowanceForm"
    /\ rvCheck = "idle"
    /\ rvCheck' = "checking"
    /\ rvPreflight' = "loading"
    /\ UNCHANGED <<surface, showConfirm, rvpc, rvSteps, requested, confirmed, rvNotice>>

\* checkRevokeAllowance settles: its result is stored, a throw is stored as a failure.
RvCheckSettles(success) ==
    /\ rvCheck = "checking"
    /\ rvCheck' = "idle"
    /\ rvPreflight' = IF success THEN "success" ELSE "failed"
    /\ UNCHANGED <<surface, showConfirm, rvpc, rvSteps, requested, confirmed, rvNotice>>

\* The form's "Revoke Allowance" button: onClick={() => setShowConfirm(true)}
RvRequest ==
    /\ surface = "RevokeAllowanceForm"
    /\ rvPreflight = "success"
    /\ ~showConfirm
    /\ showConfirm' = TRUE
    /\ requested' = TRUE
    /\ confirmed' = FALSE
    /\ UNCHANGED <<surface, rvCheck, rvPreflight, rvpc, rvSteps, rvNotice>>

\* The confirmation panel's Cancel button.
RvCancel ==
    /\ surface = "RevokeAllowanceForm"
    /\ showConfirm
    /\ rvPreflight = "success"
    /\ showConfirm' = FALSE
    /\ requested' = FALSE
    /\ confirmed' = FALSE
    /\ UNCHANGED <<surface, rvCheck, rvPreflight, rvpc, rvSteps, rvNotice>>

\* The confirmation panel's "Confirm Revoke" button: onSubmit up to its first await.
RvConfirmClick(connected) ==
    /\ surface = "RevokeAllowanceForm"
    /\ showConfirm
    /\ rvPreflight = "success"
    /\ rvpc = "idle"
    /\ confirmed' = TRUE
    /\ IF ~connected
       THEN /\ rvNotice' = "Please connect your wallet first"
            /\ UNCHANGED <<rvpc, rvSteps>>
       ELSE /\ rvpc' = "building"
            /\ rvSteps' = <<"build">>
            /\ UNCHANGED rvNotice
    /\ UNCHANGED <<surface, rvCheck, rvPreflight, showConfirm, requested>>

\* An allowance card's "Revoke Allowance" button: AllowancesList.handleRevoke
\* calls handleRevokeAllowance, which runs up to its first await.
CardRevokeClick(connected) ==
    /\ surface = "AllowancesPage"
    /\ rvpc = "idle"
    /\ requested' = TRUE
    /\ confirmed' = FALSE
    /\ IF ~connected
       THEN /\ rvpc' = "connecting"
            /\ rvSteps' = <<>>
       ELSE /\ rvpc' = "building"
            /\ rvSteps' = <<"build">>
    /\ UNCHANGED <<surface, rvCheck, rvPreflight, showConfirm, rvNotice>>

\* connect() settles; handleRevokeAllowance returns and handleRevoke's finally runs.
RvConnectSettles ==
    /\ rvpc = "connecting"
    /\ rvpc' = "idle"
    /\ requested' = FALSE
    /\ UNCHANGED <<surface, rvCheck, rvPreflight, showConfirm, rvSteps, confirmed, rvNotice>>

\* buildApproveTransaction resolves; signTransaction is called.
RvBuildReply ==
    /\ rvpc = "building"
    /\ rvpc' = "signing"
    /\ rvSteps' = Append(rvSteps, "sign")
    /\ UNCHANGED <<surface, rvCheck, rvPreflight, showConfirm, requested, confirmed, rvNotice>>

\* signTransaction resolves; submitTransaction is called.
RvSignReply ==
    /\ rvpc = "signing"
    /\ rvpc' = "submitting"
    /\ rvSteps' = Append(rvSteps, "submit")
    /\ UNCHANGED <<surface, rvCheck, rvPreflight, showConfirm, requested, confirmed, rvNotice>>

\* submitTransaction resolves. The form reports the hash and resets itself;
\* the page reloads its allowances.
RvSubmitReply ==
    /\ rvpc = "submitting"
    /\ IF surface = "RevokeAllowanceForm"
       THEN /\ rvpc' = "idle"
            /\ rvNotice' = "success"
            /\ rvPreflight' = "null"
            /\ showConfirm' = FALSE
            /\ requested' = FALSE
       ELSE /\ rvpc' = "reloading"
            /\ UNCHANGED <<rvNotice, rvPreflight, showConfirm, requested>>
    /\ UNCHANGED <<surface, rvCheck, rvSteps, confirmed>>

\* loadAllowances settles; handleRevoke's finally runs.
RvReloadSettles ==
    /\ rvpc = "reloading"
    /\ rvpc' = "idle"
    /\ requested' = FALSE
    /\ UNCHANGED <<surface, rvCheck, rvPreflight, showConfirm, rvSteps, confirmed, rvNotice>>

\* One of the awaited calls rejects. The form's catch reports it; the page has
\* no catch, the rejection leaves through handleRevoke's finally.
RvThrows ==
    /\ rvpc \in {"building", "signing", "submitting"}
    /\ rvpc' = "idle"
    /\ IF surface = "RevokeAllowanceForm"
       THEN /\ rvNotice' = "Revocation failed"
            /\ UNCHANGED requested
       ELSE /\ requested' = FALSE
            /\ UNCHANGED rvNotice
    /\ UNCHANGED <<surface, rvCheck, rvPreflight, showConfirm, rvSteps, confirmed>>

NextRevoke ==
    \/ RvCheckClick /\ UNCHANGED notRevoke
    \/ (\E success \in BOOLEAN : RvCheckSettles(success)) /\ UNCHANGED notRevoke
    \/ RvRequest /\ UNCHANGED notRevoke
    \/ RvCancel /\ UNCHANGED notRevoke
    \/ (\E connected \in BOOLEAN : RvConfirmClick(connected)) /\ UNCHANGED notRevoke
    \/ (\E connected \in BOOLEAN : CardRevokeClick(connected)) /\ UNCHANGED notRevoke
    \/ RvConnectSettles /\ UNCHANGED notRevoke
    \/ RvBuildReply /\ UNCHANGED notRevoke
    \/ RvSignReply /\ UNCHANGED notRevoke
    \/ RvSubmitReply /\ UNCHANGED notRevoke
    \/ RvReloadSettles /\ UNCHANGED notRevoke
    \/ RvThrows /\ UNCHANGED notRevoke

SpecRevoke == InitRevoke /\ [][NextRevoke]_vars

\* C23: no revoke transaction is built, signed or submitted unless the user
\* has performed a separate confirm action after asking for the revoke.
C23_RevokeNeedsConfirmation ==
    (rvpc \in {"building", "signing", "submitting"}) => confirmed
(***************************************************************************)
(* AllowanceManager: the notification and its dismissal timers             *)
(*                                                                         *)
(* Time is in milliseconds and advances a second at a time; a timer        *)
(* callback runs as soon as it is due, before time advances further.       *)
(***************************************************************************)

\* setTimeout(() => setNotification(null), 5000)
DismissDelay == 5000

\* How long the component is watched.
MaxTime == 9000

Tabs == {"grant", "revoke", "transfer"}

\* const messages = { grant: ..., revoke: ..., transfer: ... }; `${messages[tab]} TX: ${txHash}`
SuccessMessage(tab) ==
    CASE tab = "grant" -> "Allowance granted successfully! TX: hash"
      [] tab = "revoke" -> "Allowance revoked successfully! TX: hash"
      [] tab = "transfer" -> "Transfer completed successfully! TX: hash"

\* Mutant: the timer is set a second late.
setTimeoutLate(t, delay) == t + delay + 1000

\* setTimeout(callback, delay) called at time t: when the callback is due
setTimeout(t, delay) == t + delay

InitNotify ==
    /\ ListOff
    /\ fn = "none"
    /\ NotifyIdle
    /\ DecodeOff
    /\ FmtIdle
    /\ RevokeOff
    /\ SubmitIdle
    /\ PipeIdle
    /\ FormIdle
    /\ SimIdle
    /\ VestIdle
    /\ AllowIdle

\* handleSuccess(txHash, tab)
handleSuccess(tab) ==
    /\ notification' = [shown |-> TRUE, type |-> "success", message |-> SuccessMessage(tab),
                        shownAt |-> now]
    /\ timers' = timers \cup {setTimeout(now, DismissDelay)}
    /\ UNCHANGED <<now, dismissal>>

\* handleError(error)
handleError(error) ==
    /\ notification' = [shown |-> TRUE, type |-> "error", message |-> error, shownAt |-> now]
    /\ timers' = timers \cup {setTimeout(now, DismissDelay)}
    /\ UNCHANGED <<now, dismissal>>

\* A due timer runs its callback: setNotification(null)
TimerFires ==
    \E due \in timers :
        /\ due <= now
        /\ timers' = timers \ {due}
        /\ notification' = NoNotification
        /\ dismissal' = IF notification.shown
                        THEN [happened |-> TRUE, age |-> now - notification.shownAt]
                        ELSE dismissal
        /\ UNCHANGED now

\* A second passes; no timer is due.
SecondPasses ==
    /\ now + 1000 <= MaxTime
    /\ \A due \in timers : due > now
    /\ now' = now + 1000
    /\ UNCHANGED <<notification, timers, dismissal>>

NextNotify ==
    \/ (\E tab \in Tabs : handleSuccess(tab)) /\ UNCHANGED notNotify
    \/ (\E error \in {"Please run preflight check first", "Revocation failed"} : handleError(error))
           /\ UNCHANGED notNotify
    \/ TimerFires /\ UNCHANGED notNotify
    \/ SecondPasses /\ UNCHANGED notNotify

SpecNotify == InitNotify /\ [][NextNotify]_vars

\* C24: every success or error notification is dismissed once 5 seconds have
\* passed since it was shown: none is on screen for longer.
C24_DismissedAfterFiveSeconds ==
    notification.shown => now - notification.shownAt <= DismissDelay

\* A notification was cleared by its own timer, 5 seconds after it was shown.
C24_Witness == dismissal.happened /\ dismissal.age = DismissDelay

\* C29: a notification is never dismissed earlier than 5 seconds after it was
\* shown, even if the timer of an earlier notification is still pending when
\* it appears.
C29_NeverDismissedEarly ==
    dismissal.happened => dismissal.age >= DismissDelay
(***************************************************************************)
(* The forms that fetch the decimals before they simulate, with the order  *)
(* in which their checks were started on record                            *)
(***************************************************************************)

InitOverlap ==
    /\ fn = "submitTransaction"
    /\ SubmitIdle
    /\ PipeIdle
    /\ form = "ApproveForm"
    /\ observed = TRUE
    /\ FormMounted
    /\ SimIdle
    /\ VestIdle
    /\ AllowIdle
    /\ OtherIdle

\* The checks and the edits of the form; its onSubmit is left to SpecForm.
NextOverlap ==
    \/ CheckClick /\ UNCHANGED notForm
    \/ (\E c \in CheckIds, d \in DecimalsReplies : DecimalsReply(c, d)) /\ UNCHANGED notForm
    \/ (\E c \in CheckIds : DecimalsThrows(c)) /\ UNCHANGED notForm
    \/ (\E c \in CheckIds, o \in SimOutcomes : SimulateSettles(c, o)) /\ UNCHANGED notForm
    \/ (\E a \in AmountInputs : EditAmount(a)) /\ UNCHANGED notForm

SpecOverlap == InitOverlap /\ [][NextOverlap]_vars

\* C25: after a successful check, once a field is changed no submission is
\* possible until a check of the changed values has succeeded: the change
\* leaves the submit button disabled.
C25_EditDisablesSubmit ==
    [][(preflightResult.success /\ amount' # amount) => ~SubmitEnabled']_vars

\* C26: when checks overlap, the result stored in the end is that of the
\* check started last: a check that ends after one started later than it
\* has ended leaves the stored result alone.
C26_LaterCheckWins ==
    [][\A c \in CheckIds :
           (checks[c].pc # "idle" /\ checks[c].stale /\ checks'[c].pc = "idle")
               => preflightResult' = preflightResult]_vars

\* C28: isLoading is true whenever a simulation started through the hook has
\* not settled, and false only when none is in flight, overlapping ones included.
C28_LoadingWhileAnyInFlight ==
    isLoading <=> (\E c \in CheckIds : checks[c].pc = "awaitSimulate")
(***************************************************************************)
(* AllowanceList: one `revoking` id for all the revoke buttons             *)
(***************************************************************************)

\* The onRevoke calls per allowance the model follows.
MaxInFlight == 2

InitList ==
    /\ fn = "none"
    /\ listed \in [ListIds -> BOOLEAN]
    /\ ListIdle
    /\ DecodeOff
    /\ FmtIdle
    /\ RevokeOff
    /\ NotifyIdle
    /\ SubmitIdle
    /\ PipeIdle
    /\ FormIdle
    /\ SimIdle
    /\ VestIdle
    /\ AllowIdle

\* disabled={revoking === allowance.id || allowance.isExpired}
RevokeDisabled(id) == revoking = id \/ listed[id]

\* A click on the revoke button of allowance `id`: handleRevoke up to its await.
handleRevoke(id) ==
    /\ ~RevokeDisabled(id)
    /\ inFlight[id] < MaxInFlight
    /\ revoking' = id
    /\ inFlight' = [inFlight EXCEPT ![id] = inFlight[id] + 1]
    /\ UNCHANGED listed

\* An onRevoke(id) call settles, resolved or rejected: handleRevoke's finally.
RevokeSettles(id) ==
    /\ inFlight[id] > 0
    /\ revoking' = "null"
    /\ inFlight' = [inFlight EXCEPT ![id] = inFlight[id] - 1]
    /\ UNCHANGED listed

NextList ==
    \/ (\E id \in ListIds : handleRevoke(id)) /\ UNCHANGED notList
    \/ (\E id \in ListIds : RevokeSettles(id)) /\ UNCHANGED notList

SpecList == InitList /\ [][NextList]_vars

\* C27: while a revoke of an allowance is in flight its revoke button stays
\* disabled until that request settles, whatever happens to the revokes of
\* other allowances; so at most one revoke per allowance is in flight.
C27_ButtonDisabledWhileInFlight ==
    \A id \in ListIds :
        /\ inFlight[id] > 0 => RevokeDisabled(id)
        /\ inFlight[id] <= 1
(***************************************************************************)
(* A further claim about submit and poll                                   *)
(***************************************************************************)

\* The function is polling: it awaits a getTransaction answer or sleeps before the next.
Polling == spc \in {"awaitFirstGet", "sleeping", "awaitGet"}

\* C30: polling for the result starts only when sendTransaction reported the
\* transaction as PENDING; every other send status (ERROR, TRY_AGAIN_LATER,
\* DUPLICATE) is surfaced to the caller and no query is made for it.
C30_PollsOnlyWhenPending ==
    /\ (Polling \/ queries > 0) => sendStatus = "PENDING"
    /\ (spc = "done" /\ sendStatus \in SendStatuses \ {"PENDING"}) => outcome.kind = "threw"

================================================================
